---- MODULE Spec2Model ----
(***************************************************************************)
(* Request orchestration and caching layer of gpt-translator-frontend.     *)
(*                                                                         *)
(*   src/js/api.js                     RequestQueue, dedupeRequest,        *)
(*                                     retryRequest, translateWithCache,   *)
(*                                     translateWithStreaming and its      *)
(*                                     fallback                            *)
(*   src/unnamed/part_003              CacheManager (storage.js)           *)
(*   src/netlify/functions/translate.js  setCache/getCache,                *)
(*                                       retryWithBackoff, getGoogleTTS,   *)
(*                                       getOpenAITTS, the speak action,   *)
(*                                       the translate action,             *)
(*                                       splitIntoSentences, speak-chunk   *)
(*   src/netlify/functions/database.js   generateCacheKey,                 *)
(*                                       getPublicCache, setPublicCache    *)
(*                                                                         *)
(* JavaScript runs every job (task or microtask) to completion, so one     *)
(* action is one job: the synchronous body of a call, the settlement of a  *)
(* promise by the environment, or one promise reaction.                    *)
(***************************************************************************)
EXTENDS Integers, Sequences, FiniteSets, TLC

\* ---------------------------------------------------------------- bounds
MaxCalls == 3        \* dedupeRequest calls made in one behaviour
MaxCap == 2          \* largest CacheManager capacity constructed
MaxCacheOps == 5     \* get/set/clear calls made on the CacheManager
MaxTicks == 3        \* clock readings that differ, server cache
MaxCacheCalls == 4   \* setCache/getCache calls made on the server cache
MaxAttempts == 4     \* largest attempt budget handed to a retry executor
MaxTasks == 7        \* tasks submitted to the RequestQueue in one behaviour
MaxFailures == 1     \* operations of RequestQueue tasks that reject
MaxDbCalls == 3      \* getPublicCache/setPublicCache calls made directly
MaxRequests == 2     \* translate requests handled one after the other

MAX_INPUT_CHARS == 6000
TranslateAttempts == 3   \* attempts of retryWithBackoff in a translation
PromptKeyChars == 100    \* characters of the prompt that enter the cache key

DedupeKeys == {"k1", "k2"}
CacheKeys == {"k1", "k2", "k3"}
CacheValues == {"a", "b"}
TtlKeys == {"k1", "k2"}
Errors == {"e1", "e2"}

VARIABLES
    \* --- src/js/api.js: the in-flight deduplicator
    pendingRequests, \* Map key -> promise; a promise is named by its operation
    ops,             \* the operations invoked so far, in invocation order
    calls,           \* the dedupeRequest calls made so far, in call order
    \* --- src/unnamed/part_003: CacheManager
    cache,           \* this.cache: the Map, as its entries in insertion order
    maxSize,         \* this.maxSize
    cacheClock,      \* number of CacheManager calls made
    lastAccess,      \* key -> cacheClock of its latest set or hit get
    live,            \* key -> value of its latest set, "none" once evicted/cleared
    lastOp,          \* the latest CacheManager call and what it returned
    \* --- src/netlify/functions/translate.js: translationCache with TTL
    translationCache,\* Map key -> {ts, value}
    now,             \* Date.now()
    ticks,           \* number of clock advances
    ttlCalls,        \* number of setCache/getCache calls
    storedAt,        \* key -> time and value of its latest setCache
    lastRead,        \* the latest getCache call and what it returned
    \* --- retry executors
    retry,           \* the one running retryWithBackoff / retryRequest call
    \* --- src/js/api.js: RequestQueue
    queue,           \* this.queue: the tasks waiting, as task numbers
    processing,      \* this.processing
    tasks,           \* the tasks submitted so far, in submission order
    pumps,           \* the process() calls past the guard of line 24, running
    batchCount,      \* number of batches started so far
    backToBack,      \* no add() so far was made after a task had completed
    \* --- src/netlify/functions/translate.js: the speak action
    speak,           \* the one speak request being handled
    \* --- src/netlify/functions/database.js: the shared public cache
    publicCache,     \* table public_cache: hash_key -> row
    dbCalls,         \* the getPublicCache/setPublicCache calls made directly
    written,         \* (text, language) -> what its latest successful store held
    \* --- src/netlify/functions/translate.js: the translate action
    OPENAI_API_KEY,  \* process.env.OPENAI_API_KEY || ''
    req,             \* the translate request being handled
    handled,         \* number of translate requests received so far
    \* --- translate.js: two translate requests handled at the same time
    twin,            \* request number -> the request, as req
    \* --- src/js/api.js: translateWithCache (apiCache is cache, a
    \*     CacheManager; its requests are the operations of dedupeRequest)
    stage,           \* operation -> how far its request function has come
    hits,            \* the translateWithCache calls answered from apiCache
    \* --- src/js/api.js: translateWithStreaming and its fallback
    stream,          \* the one translateWithStreamingFallback call
    \* --- translate.js: splitIntoSentences and the chunks served
    split            \* the text, its chunks and the chunks served so far

dedupeVars == <<pendingRequests, ops, calls>>
cacheVars == <<cache, maxSize, cacheClock, lastAccess, live, lastOp>>
ttlVars == <<translationCache, now, ticks, ttlCalls, storedAt, lastRead>>
retryVars == <<retry>>
queueVars == <<queue, processing, tasks, pumps, batchCount, backToBack>>
speakVars == <<speak>>
publicVars == <<publicCache, dbCalls, written>>
translateVars == <<OPENAI_API_KEY, req, handled>>
twinVars == <<twin>>
clientVars == <<stage, hits>>
streamVars == <<stream>>
splitVars == <<split>>
addedVars == <<twinVars, clientVars, streamVars, splitVars>>
vars == <<pendingRequests, ops, calls, cache, maxSize, cacheClock, lastAccess,
          live, lastOp, translationCache, now, ticks, ttlCalls, storedAt, lastRead,
          retry, queue, processing, tasks, pumps, batchCount, backToBack, speak,
          publicCache, dbCalls, written, OPENAI_API_KEY, req, handled, twin,
          stage, hits, stream, split>>

\* ------------------------------------------------------------ small helpers
Remove(f, k) == [x \in (DOMAIN f) \ {k} |-> f[x]]
Put(f, k, v) == [x \in (DOMAIN f) \cup {k} |-> IF x = k THEN v ELSE f[x]]
EmptyMap == [x \in {} |-> 0]

(***************************************************************************)
(* In-flight deduplicator: src/js/api.js 57-72                             *)
(*                                                                         *)
(* An operation o is "running" until the promise requestFn() returned      *)
(* settles, "settled" while the reaction registered by .finally is queued, *)
(* and "done" once that reaction has run; the promise stored in the map    *)
(* (the one .finally returned) settles, with the same outcome, at "done".  *)
(***************************************************************************)
Pending == [kind |-> "pending", by |-> 0]
Rejected(o) == [kind |-> "rejected", by |-> o]
\* what a synchronous throw of requestFn rejects the caller with
ThrownSync == [kind |-> "rejected", by |-> -1]
\* a promise that no operation of the model settles
NoPromise == 0

InitDedupe ==
    /\ pendingRequests = EmptyMap
    /\ ops = <<>>
    /\ calls = <<>>

\* api.js 61: pendingRequests.has(key)
HasPendingNever(key) == FALSE
HasPending(key) == key \in DOMAIN pendingRequests

\* api.js 66-68: the .finally callback, run on success and on failure
FinallyOnlyOnSuccess(o) ==
    IF ops[o].outcome.kind = "fulfilled"
    THEN Remove(pendingRequests, ops[o].key)
    ELSE pendingRequests
FinallyCallback(o) == Remove(pendingRequests, ops[o].key)

\* api.js 63: a joining caller returns the stored promise
JoinResultDropped(outcome) == [kind |-> "fulfilled", by |-> 0]
JoinResult(outcome) == outcome

\* api.js 66-70: requestFn() throws before .finally and before
\* pendingRequests.set are reached
AfterSyncThrowLeak(key) == Put(pendingRequests, key, NoPromise)
AfterSyncThrow(key) == pendingRequests

\* the operations of key that are outstanding: invoked and not yet settled
Outstanding(key) ==
    {o \in 1..Len(ops) : ops[o].key = key /\ ops[o].state = "running"}
\* the operations of key whose .finally reaction has not run yet
Unfinished(key) ==
    {o \in 1..Len(ops) : ops[o].key = key /\ ops[o].state # "done"}

\* api.js 59-72, one call of dedupeRequest(key, requestFn). sync is what the
\* call of requestFn does: "returns" a promise or "throws". The record of the
\* call keeps the promise the call returns, whether it invoked requestFn
\* (started, or threw when requestFn threw), and the operations of its key
\* that were outstanding when it was made (during).
dedupeRequest(key, sync) ==
    /\ Len(calls) < MaxCalls
    /\ IF HasPending(key)
       THEN /\ calls' = Append(calls,
                    [key |-> key, promise |-> pendingRequests[key],
                     started |-> FALSE, threw |-> FALSE,
                     during |-> Outstanding(key), result |-> Pending])
            /\ UNCHANGED <<pendingRequests, ops>>
       ELSE IF sync = "throws"
       THEN /\ calls' = Append(calls,
                    [key |-> key, promise |-> NoPromise,
                     started |-> FALSE, threw |-> TRUE,
                     during |-> Outstanding(key), result |-> ThrownSync])
            /\ pendingRequests' = AfterSyncThrow(key)
            /\ UNCHANGED ops
       ELSE /\ ops' = Append(ops, [key |-> key, state |-> "running",
                                   outcome |-> Pending])
            /\ pendingRequests' = Put(pendingRequests, key, Len(ops) + 1)
            /\ calls' = Append(calls,
                    [key |-> key, promise |-> Len(ops) + 1,
                     started |-> TRUE, threw |-> FALSE,
                     during |-> Outstanding(key), result |-> Pending])

\* the environment settles the promise requestFn() returned
OperationSettles(o, kind) ==
    /\ ops[o].state = "running"
    /\ ops' = [ops EXCEPT ![o].state = "settled",
                          ![o].outcome = [kind |-> kind, by |-> o]]
    /\ UNCHANGED <<pendingRequests, calls>>

\* api.js 66-68: the reaction .finally registered runs
FinallyReaction(o) ==
    /\ ops[o].state = "settled"
    /\ pendingRequests' = FinallyCallback(o)
    /\ ops' = [ops EXCEPT ![o].state = "done"]
    /\ UNCHANGED calls

\* api.js 59, 63, 71: the promise an async function returned adopts the
\* outcome of the promise its body returned, once that one has settled
CallerSettles(c) ==
    /\ calls[c].result.kind = "pending"
    /\ calls[c].promise # NoPromise
    /\ ops[calls[c].promise].state = "done"
    /\ calls' = [calls EXCEPT ![c].result =
                    IF calls[c].started
                    THEN ops[calls[c].promise].outcome
                    ELSE JoinResult(ops[calls[c].promise].outcome)]
    /\ UNCHANGED <<pendingRequests, ops>>

DedupeCallStep ==
    /\ \E key \in DedupeKeys, sync \in {"returns", "throws"} :
            dedupeRequest(key, sync)
    /\ UNCHANGED <<cacheVars, ttlVars, retryVars, queueVars, speakVars, publicVars, translateVars, addedVars>>
OperationSettlesStep ==
    /\ \E o \in 1..Len(ops), kind \in {"fulfilled", "rejected"} :
            OperationSettles(o, kind)
    /\ UNCHANGED <<cacheVars, ttlVars, retryVars, queueVars, speakVars, publicVars, translateVars, addedVars>>
FinallyStep ==
    /\ \E o \in 1..Len(ops) : FinallyReaction(o)
    /\ UNCHANGED <<cacheVars, ttlVars, retryVars, queueVars, speakVars, publicVars, translateVars, addedVars>>
CallerSettlesStep ==
    /\ \E c \in 1..Len(calls) : CallerSettles(c)
    /\ UNCHANGED <<cacheVars, ttlVars, retryVars, queueVars, speakVars, publicVars, translateVars, addedVars>>

NextDedupe ==
    \/ DedupeCallStep
    \/ OperationSettlesStep
    \/ FinallyStep
    \/ CallerSettlesStep

(***************************************************************************)
(* Properties of the in-flight deduplicator                                *)
(***************************************************************************)
Starter(o) == CHOOSE s \in 1..Len(calls) : calls[s].started /\ calls[s].promise = o
LastCall == calls[Len(calls)]

\* C1: for every key, at any time at most one invocation of the operation
\* passed to dedupeRequest is outstanding (invoked and not yet settled),
\* whatever the number and the interleaving of the dedupeRequest calls.
C1_AtMostOneOutstanding ==
    \A key \in DedupeKeys : Cardinality(Outstanding(key)) <= 1

\* three calls for one key, the first started an operation that is still
\* outstanding and the other two found it in the map
C1_Witness ==
    /\ Len(calls) = 3
    /\ \A c \in 1..3 : calls[c].key = "k1"
    /\ calls[1].started /\ ops[calls[1].promise].state = "running"
    /\ \A c \in 2..3 : ~calls[c].started /\ calls[c].promise = calls[1].promise

\* C2: a dedupeRequest call made while an operation for its key is
\* outstanding invokes no operation and returns the promise of that
\* operation; once it and the call that started the operation have settled,
\* both hold the same fulfilled value or the same rejection, the outcome of
\* the operation.
C2_JoinersShareOutcome ==
    \A c \in 1..Len(calls) : \A o \in calls[c].during :
        /\ ~calls[c].started
        /\ ~calls[c].threw
        /\ calls[c].promise = o
        /\ calls[c].result.kind # "pending" =>
              /\ calls[c].result = ops[o].outcome
              /\ calls[Starter(o)].result.kind # "pending" =>
                    calls[c].result = calls[Starter(o)].result

\* a call joined an outstanding operation that was then rejected, and the
\* starter and the joiner both hold that rejection
C2_Witness ==
    \E c \in 1..Len(calls) : \E o \in calls[c].during :
        /\ calls[c].result = Rejected(o)
        /\ calls[Starter(o)].result = Rejected(o)

OpSettled(o) == o <= Len(ops) /\ ops[o].state = "settled"
OpRemoved(o) == o <= Len(ops) /\ ops[o].state = "done" /\ ~HasPending(ops[o].key)

\* C3: when the operation of a key settles, by success or by failure, the
\* reaction registered by .finally runs and removes the key from
\* pendingRequests; a dedupeRequest call for a key none of whose operations
\* is unfinished invokes its operation; and once every started operation
\* has settled and its reaction has run, pendingRequests is empty.
C3_RemovedOnSettlement ==
    /\ \A o \in 1..MaxCalls : OpSettled(o) ~> OpRemoved(o)
    /\ [][\A o \in 1..Len(ops) :
              (ops[o].state = "settled" /\ ops'[o].state = "done")
                  => ops[o].key \notin DOMAIN pendingRequests']_vars
    /\ [][(Len(calls') = Len(calls) + 1
              /\ Unfinished(calls'[Len(calls')].key) = {})
              => (calls'[Len(calls')].started \/ calls'[Len(calls')].threw)]_vars
    /\ []((\A o \in 1..Len(ops) : ops[o].state = "done")
              => pendingRequests = EmptyMap)

\* an operation was rejected, its key was removed, and a later call for the
\* same key started a second operation
C3_Witness ==
    \E o1, o2 \in 1..Len(ops) :
        /\ o1 < o2
        /\ ops[o1].key = ops[o2].key
        /\ ops[o1].state = "done" /\ ops[o1].outcome.kind = "rejected"
        /\ ops[o2].state = "running"
        /\ pendingRequests[ops[o2].key] = o2

\* C4: when the operation passed to dedupeRequest throws synchronously, the
\* call leaves no entry for its key in pendingRequests and the caller
\* receives the failure.
C4_SyncThrowLeavesNoEntry ==
    [][(Len(calls') = Len(calls) + 1 /\ calls'[Len(calls')].threw)
          => /\ calls'[Len(calls')].key \notin DOMAIN pendingRequests'
             /\ calls'[Len(calls')].result = ThrownSync
             /\ ops' = ops]_vars

\* the operation of a call threw synchronously while another key had an
\* operation in flight; the key of the throwing call is not in the map
C4_Witness ==
    /\ Len(calls) >= 2
    /\ LastCall.threw
    /\ LastCall.result.kind = "rejected"
    /\ LastCall.key \notin DOMAIN pendingRequests
    /\ pendingRequests # EmptyMap

(***************************************************************************)
(* CacheManager: src/unnamed/part_003 92-131                               *)
(*                                                                         *)
(* this.cache is a JavaScript Map, which iterates in insertion order: it   *)
(* is the sequence of its entries, oldest insertion first.  cacheClock,    *)
(* lastAccess, live and lastOp record the calls made; the code reads none  *)
(* of them.                                                                *)
(***************************************************************************)
Keys(c) == {c[i].key : i \in 1..Len(c)}
\* Map.prototype.has / get / delete / set
MapHas(c, key) == key \in Keys(c)
MapGet(c, key) == (CHOOSE e \in {c[i] : i \in 1..Len(c)} : e.key = key).value
MapDelete(c, key) == SelectSeq(c, LAMBDA e : e.key # key)
MapSet(c, key, value) ==
    IF MapHas(c, key)
    THEN [i \in 1..Len(c) |-> IF c[i].key = key
                              THEN [key |-> key, value |-> value] ELSE c[i]]
    ELSE Append(c, [key |-> key, value |-> value])

NoAccess == [k \in CacheKeys |-> 0]
NoneLive == [k \in CacheKeys |-> "none"]
NoOp == [op |-> "new", key |-> "none", value |-> "none", ret |-> "none",
         old |-> "none", evicted |-> "none", sizeBefore |-> 0]

\* part_003 93-96, 133-134: new CacheManager(maxSize)
InitCache ==
    /\ cache = <<>>
    /\ maxSize \in 1..MaxCap
    /\ cacheClock = 0
    /\ lastAccess = NoAccess
    /\ live = NoneLive
    /\ lastOp = NoOp

\* part_003 101-103: a hit moves the entry to the end of the Map
PromoteLost(c, key) == MapDelete(c, key)
Promote(c, key) == MapSet(MapDelete(c, key), key, MapGet(c, key))

\* part_003 98-107: get(key)
CacheGet(key) ==
    /\ cacheClock < MaxCacheOps
    /\ cacheClock' = cacheClock + 1
    /\ IF MapHas(cache, key)
       THEN /\ cache' = Promote(cache, key)
            /\ lastAccess' = [lastAccess EXCEPT ![key] = cacheClock + 1]
            /\ lastOp' = [NoOp EXCEPT !.op = "get", !.key = key,
                              !.ret = MapGet(cache, key),
                              !.old = MapGet(cache, key),
                              !.sizeBefore = Len(cache)]
       ELSE /\ cache' = cache
            /\ lastAccess' = lastAccess
            /\ lastOp' = [NoOp EXCEPT !.op = "get", !.key = key,
                              !.ret = "null", !.sizeBefore = Len(cache)]
    /\ UNCHANGED <<maxSize, live>>

\* part_003 111-113: an existing key is deleted before it is added again
DeleteIfPresentSkipped(c, key) == c
DeleteIfPresent(c, key) == IF MapHas(c, key) THEN MapDelete(c, key) ELSE c

\* part_003 116: this.cache.size >= this.maxSize
CacheFullOffByOne(c) == Len(c) > maxSize
CacheFull(c) == Len(c) >= maxSize

\* part_003 117: this.cache.keys().next().value, undefined for an empty Map
FirstKeyNewest(c) == IF Len(c) = 0 THEN "undefined" ELSE c[Len(c)].key
FirstKey(c) == IF Len(c) = 0 THEN "undefined" ELSE c[1].key

\* part_003 109-122: set(key, value)
CacheSet(key, value) ==
    LET c1 == DeleteIfPresent(cache, key)
        full == CacheFull(c1)
        firstKey == FirstKey(c1)
        c2 == IF full THEN MapDelete(c1, firstKey) ELSE c1
        gone == Keys(cache) \ (Keys(c2) \cup {key})
    IN  /\ cacheClock < MaxCacheOps
        /\ cacheClock' = cacheClock + 1
        /\ cache' = MapSet(c2, key, value)
        /\ lastAccess' = [lastAccess EXCEPT ![key] = cacheClock + 1]
        /\ live' = [k \in CacheKeys |->
                        IF k = key THEN value
                        ELSE IF k \in gone THEN "none" ELSE live[k]]
        /\ lastOp' = [NoOp EXCEPT !.op = "set", !.key = key, !.value = value,
                          !.old = IF MapHas(cache, key)
                                  THEN MapGet(cache, key) ELSE "none",
                          !.evicted = IF full /\ MapHas(c1, firstKey)
                                      THEN firstKey ELSE "none",
                          !.sizeBefore = Len(cache)]
        /\ UNCHANGED maxSize

\* part_003 124-126: clear()
CacheClear ==
    /\ cacheClock < MaxCacheOps
    /\ cacheClock' = cacheClock + 1
    /\ cache' = <<>>
    /\ live' = NoneLive
    /\ lastOp' = [NoOp EXCEPT !.op = "clear", !.sizeBefore = Len(cache)]
    /\ UNCHANGED <<maxSize, lastAccess>>

CacheGetStep ==
    /\ \E key \in CacheKeys : CacheGet(key)
    /\ UNCHANGED <<dedupeVars, ttlVars, retryVars, queueVars, speakVars, publicVars, translateVars, addedVars>>
CacheSetStep ==
    /\ \E key \in CacheKeys, value \in CacheValues : CacheSet(key, value)
    /\ UNCHANGED <<dedupeVars, ttlVars, retryVars, queueVars, speakVars, publicVars, translateVars, addedVars>>
CacheClearStep ==
    /\ CacheClear
    /\ UNCHANGED <<dedupeVars, ttlVars, retryVars, queueVars, speakVars, publicVars, translateVars, addedVars>>

NextCache ==
    \/ CacheGetStep
    \/ CacheSetStep
    \/ CacheClearStep


(***************************************************************************)
(* Properties of CacheManager                                              *)
(***************************************************************************)
\* the call that leads to the next state is set(lastOp'.key, lastOp'.value)
IsSetCall == cacheClock' = cacheClock + 1 /\ lastOp'.op = "set"
\* the entry of c whose latest access (set or hit get) is the oldest
LeastRecentlyUsed(c) ==
    CHOOSE k \in Keys(c) : \A j \in Keys(c) : lastAccess[k] <= lastAccess[j]
\* every call made so far was a set, each of a key not set before
OnlyDistinctInserts ==
    {lastAccess[k] : k \in CacheKeys} \ {0} = 1..cacheClock

\* C5: for a CacheManager of capacity maxSize >= 1, in every state reachable
\* by get, set and clear calls the number of stored entries is at most
\* maxSize (and no key is stored twice).
C5_SizeWithinCapacity ==
    /\ Len(cache) <= maxSize
    /\ Cardinality(Keys(cache)) = Len(cache)

\* a set of a new key into a full cache of capacity 2 evicted an entry
C5_Witness ==
    /\ maxSize = 2
    /\ Len(cache) = 2
    /\ lastOp.op = "set" /\ lastOp.old = "none" /\ lastOp.sizeBefore = 2
    /\ lastOp.evicted # "none"

\* C6: when set inserts a key that is not present into a full cache,
\* exactly one entry is removed, the one whose latest access (insertion,
\* replacing set or hit get) is the oldest, and the others keep their
\* values; after maxSize+1 sets of distinct keys and no other call the
\* first-inserted key is absent and the other maxSize keys are present.
C6_EvictsLeastRecentlyUsed ==
    /\ [][(IsSetCall /\ ~MapHas(cache, lastOp'.key) /\ Len(cache) >= maxSize)
            => /\ Keys(cache') = (Keys(cache) \ {LeastRecentlyUsed(cache)})
                                    \cup {lastOp'.key}
               /\ Len(cache') = Len(cache)
               /\ \A k \in Keys(cache) \ {LeastRecentlyUsed(cache)} :
                      MapGet(cache', k) = MapGet(cache, k)]_vars
    /\ []((OnlyDistinctInserts /\ cacheClock = maxSize + 1)
            => Keys(cache) = {k \in CacheKeys : lastAccess[k] >= 2})

\* capacity 2: two keys were inserted, the older one was accessed again,
\* and the insertion of a third key evicted the second-inserted key
C6_Witness ==
    /\ maxSize = 2
    /\ cacheClock = 4
    /\ lastOp.op = "set" /\ lastOp.old = "none"
    /\ lastOp.evicted # "none" /\ lastAccess[lastOp.evicted] = 2
    /\ \E k \in Keys(cache) : lastAccess[k] = 3

\* C7: set(k, v) on a key that is present replaces its value, makes k the
\* most recently used entry (the last one the Map iterates) and removes no
\* other entry, even when the cache is full: the size and the other
\* entries are unchanged.
C7_ReplaceKeepsOthers ==
    [][(IsSetCall /\ MapHas(cache, lastOp'.key))
          => /\ MapGet(cache', lastOp'.key) = lastOp'.value
             /\ cache'[Len(cache')].key = lastOp'.key
             /\ Keys(cache') = Keys(cache)
             /\ Len(cache') = Len(cache)
             /\ \A k \in Keys(cache) \ {lastOp'.key} :
                    MapGet(cache', k) = MapGet(cache, k)
             /\ MapDelete(cache', lastOp'.key) = MapDelete(cache, lastOp'.key)]_vars

\* a full cache of capacity 2: set replaced the value of a present key by
\* another value, and the other entry is still there, now the older one
C7_Witness ==
    /\ maxSize = 2
    /\ lastOp.op = "set" /\ lastOp.sizeBefore = 2
    /\ lastOp.old \notin {"none", lastOp.value}
    /\ Len(cache) = 2 /\ cache[2].key = lastOp.key

\* C8: after set(k, v), every get(k) returns v until k is evicted,
\* overwritten by a later set(k, w), or the cache is cleared: a get of a
\* key whose latest set value is live returns that value.
C8_GetReturnsLastSet ==
    (lastOp.op = "get" /\ live[lastOp.key] # "none")
        => lastOp.ret = live[lastOp.key]

\* a get returned the value a key was overwritten with, after another key
\* had been evicted or cleared
C8_Witness ==
    /\ lastOp.op = "get" /\ lastOp.ret = "b"
    /\ live[lastOp.key] = "b"
    /\ lastAccess[lastOp.key] = cacheClock
    /\ \E k \in CacheKeys : lastAccess[k] > 0 /\ live[k] = "none"

(***************************************************************************)
(* Per-process result cache with TTL: translate.js 26-43                   *)
(***************************************************************************)
\* translate.js 27
TRANSLATION_CACHE_TTL_MS == 1000 * 60 * 60

\* the amounts by which the clock moves between two calls
ClockSteps == {1, TRANSLATION_CACHE_TTL_MS}

NoRead == [op |-> "none", key |-> "none", ret |-> "none", had |-> FALSE,
           age |-> 0, stored |-> "none"]

\* translate.js 29: const translationCache = new Map()
InitTtl ==
    /\ translationCache = EmptyMap
    /\ now = 0
    /\ ticks = 0
    /\ ttlCalls = 0
    /\ storedAt = [k \in TtlKeys |-> [at |-> -1, value |-> "none"]]
    /\ lastRead = NoRead

\* time passes between two jobs
ClockAdvances(d) ==
    /\ ticks < MaxTicks
    /\ ticks' = ticks + 1
    /\ now' = now + d
    /\ UNCHANGED <<translationCache, ttlCalls, storedAt, lastRead>>

\* translate.js 31-33: setCache(key, value)
setCache(key, value) ==
    /\ ttlCalls < MaxCacheCalls
    /\ ttlCalls' = ttlCalls + 1
    /\ translationCache' = Put(translationCache, key, [ts |-> now, value |-> value])
    /\ storedAt' = [storedAt EXCEPT ![key] = [at |-> now, value |-> value]]
    /\ lastRead' = [NoRead EXCEPT !.op = "set", !.key = key]
    /\ UNCHANGED <<now, ticks>>

\* translate.js 38: Date.now() - entry.ts > TRANSLATION_CACHE_TTL_MS
ExpiredReversed(entry) == entry.ts - now > TRANSLATION_CACHE_TTL_MS
Expired(entry) == now - entry.ts > TRANSLATION_CACHE_TTL_MS

\* translate.js 35-43: getCache(key)
getCache(key) ==
    /\ ttlCalls < MaxCacheCalls
    /\ ttlCalls' = ttlCalls + 1
    /\ IF key \notin DOMAIN translationCache
       THEN /\ lastRead' = [NoRead EXCEPT !.op = "get", !.key = key, !.ret = "null"]
            /\ UNCHANGED translationCache
       ELSE LET entry == translationCache[key]
                seen == [NoRead EXCEPT !.op = "get", !.key = key, !.had = TRUE,
                                       !.age = now - storedAt[key].at,
                                       !.stored = storedAt[key].value]
            IN  IF Expired(entry)
                THEN /\ translationCache' = Remove(translationCache, key)
                     /\ lastRead' = [seen EXCEPT !.ret = "null"]
                ELSE /\ lastRead' = [seen EXCEPT !.ret = entry.value]
                     /\ UNCHANGED translationCache
    /\ UNCHANGED <<now, ticks, storedAt>>

ClockStep ==
    /\ \E d \in ClockSteps : ClockAdvances(d)
    /\ UNCHANGED <<dedupeVars, cacheVars, retryVars, queueVars, speakVars, publicVars, translateVars, addedVars>>
SetCacheStep ==
    /\ \E key \in TtlKeys, value \in CacheValues : setCache(key, value)
    /\ UNCHANGED <<dedupeVars, cacheVars, retryVars, queueVars, speakVars, publicVars, translateVars, addedVars>>
GetCacheStep ==
    /\ \E key \in TtlKeys : getCache(key)
    /\ UNCHANGED <<dedupeVars, cacheVars, retryVars, queueVars, speakVars, publicVars, translateVars, addedVars>>

NextTtl ==
    \/ ClockStep
    \/ SetCacheStep
    \/ GetCacheStep

(***************************************************************************)
(* Properties of the per-process result cache                              *)
(***************************************************************************)
\* C9: getCache(key) never returns a value whose entry was stored more than
\* TRANSLATION_CACHE_TTL_MS before the read: such an entry is deleted by the
\* read and reported absent (null), while an entry within the TTL is
\* returned as stored and kept.
C9_NeverReturnsStale ==
    (lastRead.op = "get" /\ lastRead.had)
        => IF lastRead.age > TRANSLATION_CACHE_TTL_MS
           THEN /\ lastRead.ret = "null"
                /\ lastRead.key \notin DOMAIN translationCache
           ELSE /\ lastRead.ret = lastRead.stored
                /\ lastRead.key \in DOMAIN translationCache
                /\ translationCache[lastRead.key].value = lastRead.stored

\* an entry read one millisecond after its TTL was deleted and reported
\* absent
C9_Witness ==
    /\ lastRead.op = "get" /\ lastRead.had
    /\ lastRead.age = TRANSLATION_CACHE_TTL_MS + 1
    /\ lastRead.ret = "null"
    /\ lastRead.key \notin DOMAIN translationCache

\* C33: translationCache is fixed-capacity: after any sequence of setCache
\* and getCache calls the number of entries it holds stays within a
\* configured bound, however many distinct keys were written.  The code
\* configures no bound; the property is stated for the largest bound the
\* keys written here can pass, one less than their number.
C33_FixedCapacity ==
    Cardinality(DOMAIN translationCache) <= Cardinality(TtlKeys) - 1

(***************************************************************************)
(* Retry executors: retryWithBackoff (translate.js 53-66) and              *)
(* retryRequest (api.js 159-170)                                          *)
(*                                                                         *)
(* retry.pc: "loop" at the head of the for loop, "awaiting" while the      *)
(* promise fn() returned is pending, "delay" while the timer of the catch  *)
(* block runs, "returned" / "thrown" once the executor has settled.        *)
(* invocations, failures, delays, lastRaised and lastFulfilled record what *)
(* happened; the code reads none of them.                                  *)
(***************************************************************************)
Executors == {"retryWithBackoff", "retryRequest"}

\* translate.js 53: baseDelay = 300
ServerBaseDelay == 300
\* translate.js 60: Math.random() * 200, a number in [0, 200)
JitterRange == 200
\* api.js 159: delay = 1000
ClientDelay == 1000
\* the values of Math.random() * 200 tried, to the millisecond
Jitters == {0, JitterRange - 1}

InitRetry ==
    retry \in [fn : Executors, attempts : 1..MaxAttempts, pc : {"loop"},
               i : {0}, invocations : {0}, failures : {0}, delays : {0},
               delay : {0},
               lastErr : {"undefined"}, lastRaised : {"none"},
               lastFulfilled : {"none"}, result : {"none"}]

\* translate.js 55 / api.js 160: the loop condition i < attempts
LoopContinuesOnceMore(r) == r.i <= r.attempts
LoopContinues(r) == r.i < r.attempts

\* translate.js 55-57, 65 / api.js 160-162, 170: the head of the loop; fn() is
\* invoked, or the loop is left
RetryInvoke ==
    /\ retry.pc = "loop"
    /\ IF LoopContinues(retry)
       THEN retry' = [retry EXCEPT !.pc = "awaiting",
                                   !.invocations = retry.invocations + 1]
       ELSE IF retry.fn = "retryWithBackoff"
       THEN retry' = [retry EXCEPT !.pc = "thrown", !.result = retry.lastErr]
       ELSE retry' = [retry EXCEPT !.pc = "returned", !.result = "undefined"]
    /\ UNCHANGED <<dedupeVars, cacheVars, ttlVars, queueVars, speakVars, publicVars, translateVars, addedVars>>

\* translate.js 57 / api.js 162: return await fn()
ReturnValueDropped(r, value) == [r EXCEPT !.pc = "loop", !.i = r.i + 1]
ReturnValue(r, value) == [r EXCEPT !.pc = "returned", !.result = value]

\* the operation fulfils with a value
RetryOpSucceeds(value) ==
    /\ retry.pc = "awaiting"
    /\ retry' = [ReturnValue(retry, value) EXCEPT !.lastFulfilled = value]
    /\ UNCHANGED <<dedupeVars, cacheVars, ttlVars, queueVars, speakVars, publicVars, translateVars, addedVars>>

\* translate.js 58-62 / api.js 163-167: the catch block; jitter is the value
\* of Math.random() * 200, which only retryWithBackoff draws
CatchBlockKeepsFirst(r, err, jitter) ==
    IF r.fn = "retryWithBackoff"
    THEN [r EXCEPT !.pc = "delay",
                   !.lastErr = IF r.lastErr = "undefined" THEN err ELSE r.lastErr,
                   !.delay = ServerBaseDelay * 2^(r.i) + jitter]
    ELSE IF r.i = r.attempts - 1
         THEN [r EXCEPT !.pc = "thrown",
                        !.result = IF r.lastRaised = "none" THEN err
                                   ELSE r.lastRaised]
         ELSE [r EXCEPT !.pc = "delay", !.delay = ClientDelay * (r.i + 1)]
CatchBlock(r, err, jitter) ==
    IF r.fn = "retryWithBackoff"
    THEN [r EXCEPT !.pc = "delay", !.lastErr = err,
                   !.delay = ServerBaseDelay * 2^(r.i) + jitter]
    ELSE IF r.i = r.attempts - 1
         THEN [r EXCEPT !.pc = "thrown", !.result = err]
         ELSE [r EXCEPT !.pc = "delay", !.delay = ClientDelay * (r.i + 1)]

\* the operation rejects with err
RetryOpFails(err, jitter) ==
    /\ retry.pc = "awaiting"
    /\ retry' = [CatchBlock(retry, err, jitter)
                    EXCEPT !.failures = retry.failures + 1,
                           !.lastRaised = err]
    /\ UNCHANGED <<dedupeVars, cacheVars, ttlVars, queueVars, speakVars, publicVars, translateVars, addedVars>>

\* translate.js 62, 55 / api.js 167, 160: the timer fires, i++
RetryDelayElapses ==
    /\ retry.pc = "delay"
    /\ retry' = [retry EXCEPT !.pc = "loop", !.i = retry.i + 1,
                              !.delays = retry.delays + 1]
    /\ UNCHANGED <<dedupeVars, cacheVars, ttlVars, queueVars, speakVars, publicVars, translateVars, addedVars>>

RetryOpSucceedsStep == \E value \in CacheValues : RetryOpSucceeds(value)
RetryOpFailsStep == \E err \in Errors, jitter \in Jitters : RetryOpFails(err, jitter)

NextRetry ==
    \/ RetryInvoke
    \/ RetryOpSucceedsStep
    \/ RetryOpFailsStep
    \/ RetryDelayElapses

(***************************************************************************)
(* Properties of the retry executors                                       *)
(***************************************************************************)
\* C10: when the operation fails on its first k attempts (k < attempts) and
\* then succeeds, the executor (retryWithBackoff and retryRequest alike)
\* returns that success value after exactly k+1 invocations and never
\* invokes the operation again.
C10_ReturnsFirstSuccess ==
    /\ [](retry.lastFulfilled # "none"
            => /\ retry.pc = "returned"
               /\ retry.result = retry.lastFulfilled
               /\ retry.failures < retry.attempts
               /\ retry.invocations = retry.failures + 1)
    /\ [][retry.lastFulfilled # "none"
            => retry'.invocations = retry.invocations]_vars

\* retryWithBackoff with three attempts: two failures, then the success
\* value is returned after three invocations
C10_Witness ==
    /\ retry.fn = "retryWithBackoff"
    /\ retry.attempts = 3
    /\ retry.failures = 2
    /\ retry.invocations = 3
    /\ retry.pc = "returned"
    /\ retry.result = "a"

\* C11: when the operation fails on every attempt, the executor
\* (retryWithBackoff and retryRequest alike) has invoked it exactly
\* `attempts` times, never invokes it again and never returns a value; when
\* it fails, it fails with the error the last attempt raised.
C11_FailsWithLastError ==
    /\ [](retry.failures = retry.attempts
            => /\ retry.invocations = retry.attempts
               /\ retry.pc \in {"delay", "loop", "thrown"})
    /\ [](retry.pc = "thrown"
            => /\ retry.failures = retry.attempts
               /\ retry.invocations = retry.attempts
               /\ retry.result = retry.lastRaised)
    /\ [][retry.failures = retry.attempts
            => retry'.invocations = retry.invocations]_vars

\* retryWithBackoff with three attempts, all failed, the last one with "e2":
\* it has thrown "e2" after three invocations and three delays
C11_Witness ==
    /\ retry.fn = "retryWithBackoff"
    /\ retry.attempts = 3
    /\ retry.failures = 3
    /\ retry.invocations = 3
    /\ retry.delays = 3
    /\ retry.pc = "thrown"
    /\ retry.result = "e2"

\* C32: the delay the retry executor (retryWithBackoff and retryRequest
\* alike) waits between attempt i (0-indexed, the loop index of the attempt
\* that failed) and the next one is baseDelay * 2^i plus a jitter that lies
\* in [0, 200) ms, for every delay it waits.
baseDelay(r) == IF r.fn = "retryWithBackoff" THEN ServerBaseDelay ELSE ClientDelay
C32_ExponentialJitteredDelay ==
    retry.pc = "delay"
        => LET jitter == retry.delay - baseDelay(retry) * 2^(retry.i)
           IN  0 <= jitter /\ jitter < JitterRange

\* C38: when the operation fails on its last permitted attempt, the retry
\* executor (retryWithBackoff and retryRequest alike) surfaces the error
\* immediately: it has thrown, and no backoff delay is waited after the
\* final attempt, so that it has waited one delay less than it made attempts.
C38_NoDelayAfterFinalAttempt ==
    retry.failures = retry.attempts
        => /\ retry.pc = "thrown"
           /\ retry.delays = retry.attempts - 1

(***************************************************************************)
(* RequestQueue: src/js/api.js 8-54                                        *)
(*                                                                         *)
(* A task is named by its number in submission order.  tasks[t].state is   *)
(* the state of the promise add() returned ("queued" while the task waits  *)
(* in this.queue, "running" once requestFn() was invoked); tasks[t].op is  *)
(* the outcome of the promise requestFn() returned.  A pump is one call of *)
(* process() that passed the guard of line 24 and has not returned: it is  *)
(* at "batch" while it awaits Promise.allSettled and at "delay" while it   *)
(* awaits the timer of line 46.  The fields batch, pump and during of a    *)
(* task, batchCount and backToBack record what happened; the code reads    *)
(* none of them.                                                           *)
(***************************************************************************)
\* api.js 12: this.batchSize = 5
batchSize == 5

Outcomes == {"fulfilled", "rejected"}

Range(s) == {s[i] : i \in DOMAIN s}
Min(a, b) == IF a < b THEN a ELSE b

\* api.js 9-14: the constructor
InitQueue ==
    /\ queue = <<>>
    /\ processing = FALSE
    /\ tasks = <<>>
    /\ pumps = EmptyMap
    /\ batchCount = 0
    /\ backToBack = TRUE

\* the pumps that have not returned, and the one an add() meets (0: none)
ActivePumps == DOMAIN pumps
\* the name a new pump goes by: the least one no running pump bears
NewPump == CHOOSE p \in 1..(MaxTasks + 1) : \A o \in 1..p : o \in DOMAIN pumps <=> o # p
Draining ==
    IF ActivePumps = {} THEN 0
    ELSE CHOOSE p \in ActivePumps : \A o \in ActivePumps : p <= o

Settled(tk, t) == tk[t].state \in {"resolved", "rejected"}
NoneSettled == \A t \in DOMAIN tasks : ~Settled(tasks, t)

\* api.js 18: the entry pushed
NewTask ==
    [state |-> "queued", op |-> "none", batch |-> 0, pump |-> 0,
     during |-> Draining]

\* api.js 24: the guard of process(), TRUE when it returns at once
ProcessGuardNoFlag(p, q) == Len(q) = 0
ProcessGuardFlagNegated(p, q) == ~p \/ Len(q) = 0
ProcessGuard(p, q) == p \/ Len(q) = 0

\* api.js 30: this.queue.splice(0, this.batchSize): what it returns and what
\* it leaves in the queue
SpliceFromEnd(q) ==
    LET n == Min(batchSize, Len(q))
    IN [taken |-> SubSeq(q, Len(q) - n + 1, Len(q)),
        rest |-> SubSeq(q, 1, Len(q) - n)]
Splice(q) ==
    LET n == Min(batchSize, Len(q))
    IN [taken |-> SubSeq(q, 1, n), rest |-> SubSeq(q, n + 1, Len(q))]

\* api.js 33: Promise.allSettled over the wrappers of the batch b
anySettled(tk, b) == \E t \in b : Settled(tk, t)
allSettled(tk, b) == \A t \in b : Settled(tk, t)

\* api.js 35-40: the wrapper of a task settles the promise of add() by the
\* outcome of requestFn()
WrapperOutcomeResolves(kind) == "resolved"
WrapperOutcome(kind) == IF kind = "fulfilled" THEN "resolved" ELSE "rejected"

\* api.js 50: this.processing = false
AfterLoopStuck(p) == p
AfterLoop(p) == FALSE

\* api.js 28-42, 50: pump p evaluates the while condition on the queue q and
\* runs to its next await (a batch is started) or to its end; tk and pr are
\* the tasks and this.processing at that point
WhileLoop(p, q, tk, pr) ==
    IF Len(q) > 0
    THEN LET s == Splice(q)
             b == Range(s.taken)
         IN /\ queue' = s.rest
            /\ tasks' = [t \in DOMAIN tk |->
                            IF t \in b
                            THEN [tk[t] EXCEPT !.state = "running",
                                               !.op = "pending",
                                               !.batch = batchCount + 1,
                                               !.pump = p]
                            ELSE tk[t]]
            /\ pumps' = Put(pumps, p, [pc |-> "batch", batch |-> b])
            /\ batchCount' = batchCount + 1
            /\ processing' = pr
    ELSE /\ queue' = q
         /\ tasks' = tk
         /\ pumps' = Remove(pumps, p)
         /\ batchCount' = batchCount
         /\ processing' = AfterLoop(pr)

\* api.js 16-21, 23-26: add(requestFn) with the process() call it makes
add ==
    /\ Len(tasks) < MaxTasks
    /\ LET q == Append(queue, Len(tasks) + 1)
           tk == Append(tasks, NewTask)
       IN IF ProcessGuard(processing, q)
          THEN /\ queue' = q
               /\ tasks' = tk
               /\ UNCHANGED <<processing, pumps, batchCount>>
          ELSE WhileLoop(NewPump, q, tk, TRUE)
    /\ backToBack' = (backToBack /\ NoneSettled)
    /\ UNCHANGED <<dedupeVars, cacheVars, ttlVars, retryVars, speakVars, publicVars, translateVars, addedVars>>

\* api.js 36-40: requestFn() of the running task t settles and its wrapper
\* runs (a synchronous throw of requestFn is the rejection)
TaskSettles(t, kind) ==
    /\ t \in DOMAIN tasks
    /\ tasks[t].state = "running"
    /\ tasks' = [tasks EXCEPT ![t].op = kind, ![t].state = WrapperOutcome(kind)]
    /\ UNCHANGED <<queue, processing, pumps, batchCount, backToBack>>
    /\ UNCHANGED <<dedupeVars, cacheVars, ttlVars, retryVars, speakVars, publicVars, translateVars, addedVars>>

\* api.js 33, 45-47: the await of Promise.allSettled ends for pump p
BatchSettled(p) ==
    /\ p \in DOMAIN pumps
    /\ pumps[p].pc = "batch"
    /\ allSettled(tasks, pumps[p].batch)
    /\ IF Len(queue) > 0
       THEN /\ pumps' = [pumps EXCEPT ![p].pc = "delay"]
            /\ UNCHANGED <<queue, processing, tasks, batchCount>>
       ELSE WhileLoop(p, queue, tasks, processing)
    /\ UNCHANGED <<backToBack, dedupeVars, cacheVars, ttlVars, retryVars, speakVars, publicVars, translateVars, addedVars>>

\* api.js 46, 28: the timer of pump p fires
DelayElapses(p) ==
    /\ p \in DOMAIN pumps
    /\ pumps[p].pc = "delay"
    /\ WhileLoop(p, queue, tasks, processing)
    /\ UNCHANGED <<backToBack, dedupeVars, cacheVars, ttlVars, retryVars, speakVars, publicVars, translateVars, addedVars>>

\* the operations that have rejected so far
Failures == Cardinality({t \in DOMAIN tasks : tasks[t].op = "rejected"})

TaskSettlesStep ==
    \E t \in 1..MaxTasks, kind \in Outcomes :
        /\ kind = "rejected" => Failures < MaxFailures
        /\ TaskSettles(t, kind)
BatchSettledStep == \E p \in 1..MaxTasks : BatchSettled(p)
DelayElapsesStep == \E p \in 1..MaxTasks : DelayElapses(p)

NextQueue ==
    \/ add
    \/ TaskSettlesStep
    \/ BatchSettledStep
    \/ DelayElapsesStep

(***************************************************************************)
(* Properties of the RequestQueue                                          *)
(***************************************************************************)
Submitted(t) == t \in DOMAIN tasks
Started(t) == t \in DOMAIN tasks /\ tasks[t].batch # 0
Running(t) == t \in DOMAIN tasks /\ tasks[t].state = "running"
Finished(t) == t \in DOMAIN tasks /\ Settled(tasks, t)
\* C12: tasks submitted back-to-back (none has completed before the last is
\* submitted) run in batches of batchSize, the last one possibly smaller:
\* the t-th task runs in batch ceil(t / batchSize), so that 12 tasks run as
\* batches of 5, 5 and 2.
C12_BatchesOfBatchSize ==
    backToBack
        => \A t \in DOMAIN tasks :
              Started(t) => tasks[t].batch = ((t - 1) \div batchSize) + 1

\* C13: never more than batchSize tasks are running, and a task of a later
\* batch has started only if every task of the batches before it has
\* settled.
C13_BoundedConcurrency ==
    /\ Cardinality({t \in DOMAIN tasks : Running(t)}) <= batchSize
    /\ \A t, u \in DOMAIN tasks :
          (Started(t) /\ Started(u) /\ tasks[t].batch < tasks[u].batch)
              => Finished(t)

\* a second batch of batchSize tasks runs, the batch before it has settled
C13_Witness ==
    /\ Cardinality({t \in DOMAIN tasks : Running(t)}) = batchSize
    /\ \E t \in DOMAIN tasks : Running(t) /\ tasks[t].batch = 2
    /\ \E t \in DOMAIN tasks : Finished(t) /\ tasks[t].batch = 1

\* C14: at most one pump drains the queue; an add() made while a pump runs
\* only appends the task to the queue, and that task is started by the pump
\* that was running.
C14_SinglePump ==
    /\ [](Cardinality(ActivePumps) <= 1)
    /\ [](\A t \in DOMAIN tasks :
            tasks[t].during # 0
                => IF Started(t)
                   THEN tasks[t].pump = tasks[t].during
                   ELSE /\ tasks[t].during \in ActivePumps
                        /\ t \in Range(queue))
    /\ [][(ActivePumps # {} /\ Len(tasks') = Len(tasks) + 1)
            => /\ queue' = Append(queue, Len(tasks'))
               /\ SubSeq(tasks', 1, Len(tasks)) = tasks
               /\ tasks'[Len(tasks')].state = "queued"
               /\ pumps' = pumps
               /\ processing' = processing]_vars

\* a task added while pump 1 awaited its first batch runs, started by pump 1
C14_Witness ==
    /\ DOMAIN pumps = {1}
    /\ \E t \in DOMAIN tasks :
          /\ tasks[t].during = 1
          /\ tasks[t].pump = 1
          /\ tasks[t].batch = 2
          /\ Running(t)

\* C15: provided every operation started settles, every task submitted is
\* eventually started and its promise eventually resolved or rejected.
C15_EveryTaskSettles ==
    /\ [](\A t \in DOMAIN tasks : Finished(t) => Started(t))
    /\ \A t \in 1..MaxTasks : Submitted(t) ~> Finished(t)

\* all MaxTasks tasks have settled, the last in a third batch or later; the
\* queue is empty and the pump has returned
C15_Witness ==
    /\ Len(tasks) = MaxTasks
    /\ \A t \in DOMAIN tasks : Finished(t)
    /\ tasks[MaxTasks].batch >= 3
    /\ queue = <<>>
    /\ ~processing

\* C16: a task whose operation rejects has its own promise rejected and no
\* other: every settled promise carries the outcome of its own operation,
\* the rejection changes no other task, the queue or the pump, and once a
\* task has failed every task submitted still settles.
C16_FailureIsolated ==
    /\ [](\A t \in DOMAIN tasks :
            Finished(t) => (tasks[t].state = "rejected" <=> tasks[t].op = "rejected"))
    /\ [][\A t \in DOMAIN tasks :
            (tasks[t].state = "running" /\ tasks'[t].state = "rejected")
                => /\ \A u \in DOMAIN tasks : u # t => tasks'[u] = tasks[u]
                   /\ queue' = queue
                   /\ pumps' = pumps
                   /\ processing' = processing]_vars
    /\ \A u \in 1..MaxTasks :
          (Submitted(u) /\ \E t \in DOMAIN tasks : tasks[t].state = "rejected")
              ~> Finished(u)

\* in the second batch one task was rejected and another resolved, and a
\* task of the third batch resolved
C16_Witness ==
    /\ \E t, u \in DOMAIN tasks :
          /\ tasks[t].batch = 2 /\ tasks[t].state = "rejected"
          /\ tasks[u].batch = 2 /\ tasks[u].state = "resolved"
    /\ \E t \in DOMAIN tasks : tasks[t].batch = 3 /\ tasks[t].state = "resolved"

\* C17: tasks are admitted in submission order: when a task has started,
\* every task submitted before it has started in the same batch or in an
\* earlier one.
C17_SubmissionOrder ==
    \A t, u \in DOMAIN tasks :
        (t < u /\ Started(u)) => (Started(t) /\ tasks[t].batch <= tasks[u].batch)

\* more tasks waited than one batch takes: the first batchSize of them run
\* in the second batch and the next one waits
C17_Witness ==
    /\ Len(tasks) = batchSize + 2
    /\ queue = <<batchSize + 2>>
    /\ \A t \in 2..(batchSize + 1) : tasks[t].batch = 2

\* C37: at every point where control is yielded and the pump is not running
\* (processing is false) the queue is empty: a task is never left in the
\* queue without a running pump that will take it.
C37_IdlePumpEmptyQueue ==
    /\ ~processing => queue = <<>>
    /\ queue # <<>> => \E p \in ActivePumps : pumps[p].pc \in {"batch", "delay"}

\* more tasks than one batch takes were added while the pump ran, all have
\* settled and the pump has returned: nothing waits
C37_Witness ==
    /\ Len(tasks) > batchSize + 1
    /\ \A t \in DOMAIN tasks : Settled(tasks, t)
    /\ \E t \in DOMAIN tasks : tasks[t].during # 0 /\ tasks[t].batch > 1
    /\ ~processing /\ ActivePumps = {}
    /\ queue = <<>>

(***************************************************************************)
(* Speech synthesis: the speak action of exports.handler (translate.js     *)
(* 641-766) with getGoogleTTS (317-435) and getOpenAITTS (438-488)         *)
(*                                                                         *)
(* One request is followed from the action's entry to its response.        *)
(* speak.pc: "start" at line 665, "google" while getGoogleTTS awaits the   *)
(* Google API, "openai" while a getOpenAITTS call is awaited (its          *)
(* retryWithBackoff included), "track" while trackUsage is awaited, "done" *)
(* once the response is returned.  speak.site is the line of the call      *)
(* awaited and speak.caller the handler line that called getGoogleTTS.     *)
(* speak.calls records the provider functions invoked, with the credential *)
(* handed over and the outcome; the code reads none of it.  An audio       *)
(* buffer is named by the provider it came from, or is "empty".            *)
(***************************************************************************)
\* useGoogleTTS: true, false, anything else
SpeakModes == {"google", "openai", "auto"}
\* what the Google API call comes to: audio, a response without audio
\* content, a refusal (no service account, no token, status not ok), or an
\* exception (network, JSON)
GoogleOutcomes == {"audio", "noAudioContent", "refused", "throws"}
\* what getOpenAITTS comes to: audio, a body of zero bytes, or the error
\* retryWithBackoff threw
OpenAIOutcomes == {"audio", "empty", "error"}

\* translate.js 641-665: the action is entered; long is
\* inputText.length >= 50, userKey is userApiKeys?.openai, userId is userId
InitSpeak ==
    speak \in [mode : SpeakModes, long : BOOLEAN, userKey : BOOLEAN,
               userId : BOOLEAN, pc : {"start"}, site : {0}, caller : {0},
               calls : {<<>>}, audioBuffer : {"undefined"}, status : {0},
               body : {"none"}]

\* translate.js 651: userApiKeys?.openai || OPENAI_API_KEY
ttsApiKey(s) == IF s.userKey THEN "user" ELSE "system"

\* translate.js 680, 713, 728: getGoogleTTS is called from handler line c
CallGoogle(s, c) ==
    [s EXCEPT !.pc = "google", !.site = c, !.caller = c,
              !.calls = Append(s.calls, [fn |-> "google", key |-> "service",
                                         site |-> c, result |-> "pending"])]

\* translate.js 328, 344, 405, 412, 429, 689, 696, 730: getOpenAITTS is
\* called at line l with the credential key (439: apiKey || OPENAI_API_KEY)
CallOpenAI(s, l, key) ==
    [s EXCEPT !.pc = "openai", !.site = l,
              !.calls = Append(s.calls, [fn |-> "openai", key |-> key,
                                         site |-> l, result |-> "pending"])]

\* the call awaited has come to the outcome o
Outcome(s, o) == [s EXCEPT !.calls[Len(s.calls)].result = o]

Respond(s, status, body) == [s EXCEPT !.pc = "done", !.status = status, !.body = body]

\* the check of audioBuffer with its condition negated
CheckBufferNegated(s, buf) ==
    IF buf \notin {"undefined", "empty"}
    THEN [Respond(s, 500, "emptyBuffer") EXCEPT !.audioBuffer = buf]
    ELSE [Respond(s, 200, buf) EXCEPT !.audioBuffer = buf]

\* translate.js 741-757: the check of audioBuffer and the response; buf is
\* the buffer assigned to audioBuffer
CheckBuffer(s, buf) ==
    IF buf \in {"undefined", "empty"}
    THEN [Respond(s, 500, "emptyBuffer") EXCEPT !.audioBuffer = buf]
    ELSE [Respond(s, 200, buf) EXCEPT !.audioBuffer = buf]

\* translate.js 759-766: catch (error) of the action; msg is error.message
OuterCatch(s, msg) == Respond(s, 500, msg)

\* translate.js 700-704, 733-737: after getOpenAITTS returned buf at line
\* 696 or 730
AfterOpenAI(s, buf) ==
    IF s.userId
    THEN [s EXCEPT !.pc = "track", !.audioBuffer = buf]
    ELSE CheckBuffer(s, buf)

\* translate.js 687-690, 715-717, 728: getGoogleTTS threw (line 432) to the
\* handler line that called it
GoogleThrew(s) ==
    IF s.caller = 680 THEN CallOpenAI(s, 689, ttsApiKey(s))
    ELSE IF s.caller = 713 THEN OuterCatch(s, "allFailed")
    ELSE OuterCatch(s, "providerError")

\* translate.js 665-667, 692, 720-730: the engine is selected
SpeakStart ==
    /\ speak.pc = "start"
    /\ speak' = IF speak.mode = "google" THEN CallGoogle(speak, 680)
                ELSE IF speak.mode = "openai"
                     THEN CallOpenAI(speak, 696, ttsApiKey(speak))
                ELSE IF ~speak.long THEN CallGoogle(speak, 728)
                ELSE CallOpenAI(speak, 730, ttsApiKey(speak))
    /\ UNCHANGED <<dedupeVars, cacheVars, ttlVars, retryVars, queueVars, publicVars, translateVars, addedVars>>

\* translate.js 325-429: getGoogleTTS up to its return or to the
\* getOpenAITTS call it makes
GoogleResponds(o) ==
    /\ speak.pc = "google"
    /\ LET s == Outcome(speak, o)
       IN speak' = IF o = "audio" THEN CheckBuffer(s, "google")
                   ELSE IF o = "throws" THEN CallOpenAI(s, 429, "system")
                   ELSE CallOpenAI(s, 412, "system")
    /\ UNCHANGED <<dedupeVars, cacheVars, ttlVars, retryVars, queueVars, publicVars, translateVars, addedVars>>

\* translate.js 484-487 and the continuation of the caller: getOpenAITTS
\* returns a buffer, or throws to the try block around the call
OpenAIResponds(o) ==
    /\ speak.pc = "openai"
    /\ LET s == Outcome(speak, o)
           buf == IF o = "audio" THEN "openai" ELSE "empty"
       IN speak' =
            IF o # "error"
            THEN IF s.site \in {696, 730} THEN AfterOpenAI(s, buf)
                 ELSE CheckBuffer(s, buf)
            ELSE IF s.site = 412 THEN CallOpenAI(s, 429, "system")
            ELSE IF s.site = 429 THEN GoogleThrew(s)
            ELSE IF s.site = 696 THEN CallGoogle(s, 713)
            ELSE OuterCatch(s, "providerError")
    /\ UNCHANGED <<dedupeVars, cacheVars, ttlVars, retryVars, queueVars, publicVars, translateVars, addedVars>>

\* translate.js 702, 735: trackUsage returns (database.js 216-264: it
\* catches its own errors)
TrackUsageReturns ==
    /\ speak.pc = "track"
    /\ speak' = CheckBuffer(speak, speak.audioBuffer)
    /\ UNCHANGED <<dedupeVars, cacheVars, ttlVars, retryVars, queueVars, publicVars, translateVars, addedVars>>

GoogleRespondsStep == \E o \in GoogleOutcomes : GoogleResponds(o)
OpenAIRespondsStep == \E o \in OpenAIOutcomes : OpenAIResponds(o)

NextSpeak ==
    \/ SpeakStart
    \/ GoogleRespondsStep
    \/ OpenAIRespondsStep
    \/ TrackUsageReturns

(***************************************************************************)
(* Properties of the speak action                                          *)
(***************************************************************************)
\* the provider the request selected first, and the other one
Selected == speak.calls[1].fn
Other == IF Selected = "google" THEN "openai" ELSE "google"
Attempted(fn) == \E i \in DOMAIN speak.calls : speak.calls[i].fn = fn
\* a call that ended without audio: an error, a refusal, no audio content
FailedCall(c) == c.result \in {"error", "throws", "refused", "noAudioContent"}
\* a call that ended with a body of zero bytes
ZeroLength(c) == c.result \in {"empty", "noAudioContent"}
SpeakDone == speak.pc = "done"

\* C18: in every mode (forced Google, forced OpenAI, auto with short and
\* with long input), when the provider selected first has failed and a
\* failure is returned to the caller, the other provider was attempted.
C18_OtherProviderAttempted ==
    (SpeakDone /\ speak.status = 500 /\ FailedCall(speak.calls[1]))
        => Attempted(Other)

\* C19: the chain falls back only once: a request ends with at most one
\* call of each provider, and when both providers have failed the error
\* returned is the 'all engines failed' error, in every mode.
C19_FallsBackOnce ==
    SpeakDone
        => /\ \A i, j \in DOMAIN speak.calls :
                speak.calls[i].fn = speak.calls[j].fn => i = j
           /\ (\A i \in DOMAIN speak.calls : FailedCall(speak.calls[i])) /\ Attempted(Other)
                => speak.body = "allFailed"

\* C20: a zero-length audio payload from the provider selected first is
\* treated as its failure: the request does not end before the other
\* provider was attempted, and never with the empty buffer while the other
\* provider is untried.
C20_ZeroLengthFallsBack ==
    (SpeakDone /\ ZeroLength(speak.calls[1])) => Attempted(Other)

CallsOf(fn) == {i \in DOMAIN speak.calls : speak.calls[i].fn = fn}
\* Google, the primary provider, was selected and its call failed, and
\* every call made to OpenAI, the secondary provider, returned audio
PrimaryFailedSecondaryOk ==
    /\ SpeakDone
    /\ Selected = "google" /\ FailedCall(speak.calls[1])
    /\ \A i \in CallsOf("openai") : speak.calls[i].result = "audio"

\* C21: when the primary provider (Google) is selected and fails while the
\* secondary (OpenAI) succeeds, the request ends with status 200 and
\* exactly the audio OpenAI returned, after exactly one call of Google
\* followed by the fallback call of OpenAI.
C21_SecondaryAudioAfterOnePrimary ==
    PrimaryFailedSecondaryOk
        => /\ speak.status = 200
           /\ speak.body = "openai" /\ speak.audioBuffer = "openai"
           /\ CallsOf("google") = {1}
           /\ CallsOf("openai") = {2}
C21_Witness ==
    /\ PrimaryFailedSecondaryOk
    /\ speak.calls[1].result = "throws"
    /\ Len(speak.calls) = 2 /\ speak.calls[2].result = "audio"
    /\ speak.body = "openai"

\* C22: every call made to a provider, fallback calls included, carries
\* the requesting user's stored credential whenever the user has one, and
\* the system default only otherwise.
C22_UserCredentialFirst ==
    \A i \in CallsOf("openai") :
        speak.calls[i].key = (IF speak.userKey THEN "user" ELSE "system")

(***************************************************************************)
(* Shared public cache: src/netlify/functions/database.js 266-334          *)
(*                                                                         *)
(* The table public_cache holds one row per hash_key (the upsert resolves  *)
(* conflicts on hash_key), so a row's id names the same row as its         *)
(* hash_key and the table is a map from hash_key to row.  Texts, languages *)
(* and keys are strings, built as the code builds them.  A call is a       *)
(* record: its arguments, the request it awaits (pc) and what it returned  *)
(* (ret); normal and seen record whether the database answered every       *)
(* request normally and what had been stored for the pair when the select  *)
(* was answered, and the code reads neither.  The database answers a       *)
(* request normally ("ok"), with an error object ("error"), or the request *)
(* throws ("throws": no connection, or supabase is null for lack of        *)
(* configuration, 19-21).                                                  *)
(***************************************************************************)
SourceTexts == {"hi", "hi:en"}
TargetLangs == {"vi", "en:vi"}
\* translation and pronunciation handed to setPublicCache
Renderings == {<<"chao", "">>, <<"xin chao", "sin jjao">>}
DbOutcomes == {"ok", "error", "throws"}

\* SHA-256 in hexadecimal: one digest per message
sha256(message) == <<"sha256", message>>

\* database.js 267-269: generateCacheKey(sourceText, targetLang)
HashedValue(sourceText, targetLang) == sourceText \o ":" \o targetLang
generateCacheKey(sourceText, targetLang) ==
    sha256(HashedValue(sourceText, targetLang))

NotReturned == [state |-> "pending", success |-> FALSE, translation |-> "",
            pronunciation |-> "", hitCount |-> 0]
Failure == [NotReturned EXCEPT !.state = "returned"]
\* what is known of a (text, language) pair: whether a store of it has
\* succeeded, and what the latest such store held
NeverStored == [stored |-> FALSE, translation |-> "", pronunciation |-> ""]
NoRow == [source_text |-> "", target_lang |-> "", translation |-> "",
          pronunciation |-> "", hit_count |-> 0]

\* database.js 271-280: getPublicCache up to the await of the select
getPublicCache(sourceText, targetLang) ==
    [fn |-> "getPublicCache", sourceText |-> sourceText, targetLang |-> targetLang,
     translation |-> "", pronunciation |-> "",
     hashKey |-> generateCacheKey(sourceText, targetLang),
     pc |-> "select", data |-> NoRow, ret |-> NotReturned,
     normal |-> TRUE, seen |-> NeverStored]

\* database.js 275-282, 302-305: the select is answered with o; .single()
\* reports an error when no row has the key
SelectAnswered(c, table, o) ==
    IF o # "ok" \/ c.hashKey \notin DOMAIN table
    THEN [c EXCEPT !.pc = "done", !.ret = Failure]
    ELSE [c EXCEPT !.pc = "update", !.data = table[c.hashKey]]

\* database.js 285-291: the table after the update of hit_count
HitCountUpdated(c, table, o) ==
    IF o = "ok" /\ c.hashKey \in DOMAIN table
    THEN [table EXCEPT ![c.hashKey].hit_count = c.data.hit_count + 1]
    ELSE table

\* database.js 285-305: the update is answered with o; its result is not
\* looked at, an exception goes to the catch
UpdateAnswered(c, o) ==
    IF o = "throws"
    THEN [c EXCEPT !.pc = "done", !.ret = Failure]
    ELSE [c EXCEPT !.pc = "done",
                   !.ret = [state |-> "returned", success |-> TRUE,
                            translation |-> c.data.translation,
                            pronunciation |-> c.data.pronunciation,
                            hitCount |-> c.data.hit_count + 1]]

\* database.js 308-325: setPublicCache up to the await of the upsert
setPublicCache(sourceText, targetLang, translation, pronunciation) ==
    [fn |-> "setPublicCache", sourceText |-> sourceText, targetLang |-> targetLang,
     translation |-> translation, pronunciation |-> pronunciation,
     hashKey |-> generateCacheKey(sourceText, targetLang),
     pc |-> "upsert", data |-> NoRow, ret |-> NotReturned,
     normal |-> TRUE, seen |-> NeverStored]

\* database.js 312-325: the table after the upsert (onConflict: 'hash_key',
\* ignoreDuplicates: false)
Upserted(c, table, o) ==
    IF o = "ok"
    THEN Put(table, c.hashKey,
             [source_text |-> c.sourceText, target_lang |-> c.targetLang,
              translation |-> c.translation, pronunciation |-> c.pronunciation,
              hit_count |-> 1])
    ELSE table

\* database.js 327-333: the upsert is answered with o
UpsertAnswered(c, o) ==
    [c EXCEPT !.pc = "done", !.ret = [Failure EXCEPT !.success = (o = "ok")]]

InitPublic ==
    /\ publicCache = EmptyMap
    /\ dbCalls = <<>>
    /\ written = [pair \in SourceTexts \X TargetLangs |-> NeverStored]

OtherThanPublic ==
    <<dedupeVars, cacheVars, ttlVars, retryVars, queueVars, speakVars, translateVars, addedVars>>

\* a caller calls getPublicCache(sourceText, targetLang)
GetPublicCacheCalled ==
    /\ Len(dbCalls) < MaxDbCalls
    /\ \E sourceText \in SourceTexts, targetLang \in TargetLangs :
          dbCalls' = Append(dbCalls, getPublicCache(sourceText, targetLang))
    /\ UNCHANGED <<publicCache, written, OtherThanPublic>>

\* a caller calls setPublicCache(sourceText, targetLang, translation,
\* pronunciation)
SetPublicCacheCalled ==
    /\ Len(dbCalls) < MaxDbCalls
    /\ \E sourceText \in SourceTexts, targetLang \in TargetLangs, r \in Renderings :
          dbCalls' = Append(dbCalls, setPublicCache(sourceText, targetLang, r[1], r[2]))
    /\ UNCHANGED <<publicCache, written, OtherThanPublic>>

\* the call c has been answered o
Answered(c, o) == [c EXCEPT !.normal = c.normal /\ o = "ok"]

\* the database answers the select of a call
SelectReturns ==
    /\ \E i \in DOMAIN dbCalls, o \in DbOutcomes :
          /\ dbCalls[i].pc = "select"
          /\ dbCalls' = [dbCalls EXCEPT ![i] =
                [Answered(SelectAnswered(dbCalls[i], publicCache, o), o)
                 EXCEPT !.seen = written[<<dbCalls[i].sourceText, dbCalls[i].targetLang>>]]]
    /\ UNCHANGED <<publicCache, written, OtherThanPublic>>

\* the database answers the update of a call
UpdateReturns ==
    /\ \E i \in DOMAIN dbCalls, o \in DbOutcomes :
          /\ dbCalls[i].pc = "update"
          /\ publicCache' = HitCountUpdated(dbCalls[i], publicCache, o)
          /\ dbCalls' = [dbCalls EXCEPT ![i] = Answered(UpdateAnswered(dbCalls[i], o), o)]
    /\ UNCHANGED <<written, OtherThanPublic>>

\* the database answers the upsert of a call
UpsertReturns ==
    /\ \E i \in DOMAIN dbCalls, o \in DbOutcomes :
          /\ dbCalls[i].pc = "upsert"
          /\ publicCache' = Upserted(dbCalls[i], publicCache, o)
          /\ dbCalls' = [dbCalls EXCEPT ![i] = Answered(UpsertAnswered(dbCalls[i], o), o)]
          /\ written' =
                IF o = "ok"
                THEN [written EXCEPT ![<<dbCalls[i].sourceText, dbCalls[i].targetLang>>] =
                        [stored |-> TRUE, translation |-> dbCalls[i].translation,
                         pronunciation |-> dbCalls[i].pronunciation]]
                ELSE written
    /\ UNCHANGED OtherThanPublic

NextPublic ==
    \/ GetPublicCacheCalled
    \/ SetPublicCacheCalled
    \/ SelectReturns
    \/ UpdateReturns
    \/ UpsertReturns

(***************************************************************************)
(* Properties of the shared public cache                                   *)
(***************************************************************************)
PairOf(c) == <<c.sourceText, c.targetLang>>

\* C26: two distinct (sourceText, targetLang) pairs never get the same
\* key, because the value generateCacheKey hashes differs for every two
\* distinct pairs; and the same pair always gets the same key.
C26_DistinctPairsDistinctKeys ==
    \A i, j \in DOMAIN dbCalls :
        /\ PairOf(dbCalls[i]) = PairOf(dbCalls[j]) => dbCalls[i].hashKey = dbCalls[j].hashKey
        /\ PairOf(dbCalls[i]) # PairOf(dbCalls[j])
              => /\ HashedValue(dbCalls[i].sourceText, dbCalls[i].targetLang)
                      # HashedValue(dbCalls[j].sourceText, dbCalls[j].targetLang)
                 /\ dbCalls[i].hashKey # dbCalls[j].hashKey

Lookups == {i \in DOMAIN dbCalls :
                dbCalls[i].fn = "getPublicCache" /\ dbCalls[i].pc = "done"}

\* C28: a getPublicCache(s, l) answered after a setPublicCache(s, l, t, a)
\* has succeeded returns t and a (those of the latest such store), and a
\* getPublicCache of a pair never stored returns absent.
C28_StoreThenLookup ==
    \A i \in Lookups :
        LET c == dbCalls[i] IN
        /\ (c.seen.stored /\ c.normal)
              => /\ c.ret.success
                 /\ c.ret.translation = c.seen.translation
                 /\ c.ret.pronunciation = c.seen.pronunciation
        /\ ~c.seen.stored => ~c.ret.success

\* the lookups that return in this step
Returning == {i \in DOMAIN dbCalls :
                /\ dbCalls[i].fn = "getPublicCache"
                /\ dbCalls[i].pc # "done" /\ dbCalls'[i].pc = "done"}

\* C35: every successful getPublicCache lookup of an entry increases the
\* entry's stored hit counter by exactly one, lookups of the same entry that
\* overlap in time included; and the counter update never turns a hit into
\* a failed read: a lookup whose select found the entry returns it.
C35_HitCountedOnce ==
    [][\A i \in Returning :
          LET c == dbCalls'[i] IN
          /\ c.ret.success
                => /\ c.hashKey \in DOMAIN publicCache'
                   /\ publicCache'[c.hashKey].hit_count
                         = publicCache[c.hashKey].hit_count + 1
          /\ c.data # NoRow => c.ret.success]_vars

(***************************************************************************)
(* The translate action: translate.js 507-633, with                        *)
(* translateWithAIContext (69-198) and translateAndPronounceSingleCall     *)
(* (201-295)                                                               *)
(*                                                                         *)
(* One process handles the requests one after the other.  A request is a   *)
(* record: what the handler holds of it (the user the token was verified   *)
(* for and the openai key getUserApiKey returned, 507-536, and the fields  *)
(* of the body, 538-552), where it stands (pc, fn, apiKey, cacheKey, db,   *)
(* i, result) and its response (statusCode, error).  served, publicReads,  *)
(* publicWrites, cacheReads, cacheWrites, fetches, delays, readFailed and  *)
(* writeFailed record what was done for it; the code reads none of them.   *)
(* The provider's answer to a payload is named by the payload.             *)
(***************************************************************************)
RECURSIVE Repeat(_, _)
Repeat(s, n) ==
    IF n = 0 THEN ""
    ELSE IF n % 2 = 1 THEN s \o Repeat(s, n - 1)
    ELSE LET half == Repeat(s, n \div 2) IN half \o half

\* a text of MAX_INPUT_CHARS + 1 characters
LongText == Repeat("x", MAX_INPUT_CHARS + 1)
InputTexts == {"", " ", "hi", LongText}
InputLangs == {"vi"}
\* two prompts that differ after their first PromptKeyChars characters
LongPrompt == Repeat("p", PromptKeyChars)
Prompts == {"", " ", LongPrompt \o "a", LongPrompt \o "b"}
QualityLevels == {3, 5}
\* a guest, a user without a stored openai key, a user with one
Users == {[userId |-> FALSE, openai |-> ""], [userId |-> TRUE, openai |-> ""],
          [userId |-> TRUE, openai |-> "sk-user"]}
FetchOutcomes == {"ok", "fails"}

\* String.prototype.trim, String.prototype.substring(0, n) and the text of
\* a boolean in a template literal
RECURSIVE trimStart(_)
trimStart(s) == IF s # "" /\ Head(s) = " " THEN trimStart(Tail(s)) ELSE s
RECURSIVE trimEnd(_)
trimEnd(s) ==
    IF s # "" /\ SubSeq(s, Len(s), Len(s)) = " "
    THEN trimEnd(SubSeq(s, 1, Len(s) - 1))
    ELSE s
trim(s) == trimEnd(trimStart(s))
substring(s, n) == IF Len(s) <= n THEN s ELSE SubSeq(s, 1, n)
BoolText(b) == IF b THEN "true" ELSE "false"

NoPayload == [fn |-> "none", targetLang |-> "", inputText |-> "",
              getPronunciation |-> FALSE, qualityLevel |-> 0, userPrompt |-> ""]
NoResult == [translation |-> NoPayload, pronunciation_hangul |-> ""]
NoCall == [getPublicCache("", "") EXCEPT !.fn = "none", !.pc = "none"]
NoRequest ==
    [pc |-> "idle", userId |-> FALSE, openai |-> "", inputText |-> "",
     targetLang |-> "", getPronunciation |-> TRUE, useAIContext |-> FALSE,
     contextualPrompt |-> "", qualityLevel |-> 3,
     fn |-> "none", apiKey |-> "", cacheKey |-> "", db |-> NoCall, i |-> 0,
     result |-> NoResult, statusCode |-> 0, error |-> "",
     served |-> "none", publicReads |-> 0, publicWrites |-> 0,
     cacheReads |-> 0, cacheWrites |-> 0, fetches |-> <<>>, delays |-> 0,
     readFailed |-> FALSE, writeFailed |-> FALSE]

\* translate.js 24: OPENAI_API_KEY = process.env.OPENAI_API_KEY || ''
InitTranslate ==
    /\ OPENAI_API_KEY \in {"", "sk-system"}
    /\ req = NoRequest
    /\ handled = 0

Reply(r, statusCode, error) ==
    [r EXCEPT !.pc = "done", !.statusCode = statusCode, !.error = error]

\* translate.js 836-846: catch (err) of the handler
HandlerCatch(r, message) == Reply(r, 500, message)

\* translate.js 626-633: catch (error) of the translate action
TranslateCatch(r, message) == Reply(r, 500, message)

\* translate.js 600-625: the result is there; usage is tracked for a user
Returned(r, result, served) ==
    IF r.userId
    THEN [r EXCEPT !.pc = "trackUsage", !.result = result, !.served = served]
    ELSE [Reply(r, 200, "") EXCEPT !.result = result, !.served = served]

\* translate.js 72-73, 213-214: the message of the error thrown for the
\* text, "" when none is thrown
ValidationError(inputText) ==
    IF inputText = "" \/ Len(trim(inputText)) = 0 THEN "emptyText"
    ELSE IF Len(inputText) > MAX_INPUT_CHARS THEN "tooLong"
    ELSE ""

\* every prompt taken for no context
NoContextAlways(r) == TRUE

\* translate.js 76, 193: !contextualPrompt || contextualPrompt.trim() === ''
NoContext(r) == r.contextualPrompt = "" \/ trim(r.contextualPrompt) = ""

\* translate.js 86, 216: cacheKey
CacheKey(r) ==
    IF r.fn = "translateAndPronounceSingleCall"
    THEN "tr:" \o r.targetLang \o ":" \o r.inputText \o ":"
              \o BoolText(r.getPronunciation)
    ELSE "ai_tr:" \o r.targetLang \o ":" \o r.inputText \o ":"
              \o ToString(r.qualityLevel) \o ":" \o BoolText(r.getPronunciation)
              \o ":" \o substring(r.contextualPrompt, PromptKeyChars)

\* translate.js 35-43: what getCache(key) returns, NoResult for null, and
\* the Map after the call
Cached(key) ==
    IF key \in DOMAIN translationCache /\ ~Expired(translationCache[key])
    THEN translationCache[key].value
    ELSE NoResult
AfterGetCache(key) ==
    IF key \in DOMAIN translationCache /\ Expired(translationCache[key])
    THEN Remove(translationCache, key)
    ELSE translationCache

\* translate.js 92-148, 222-252: the payload sent to the provider; the
\* text reaches translateWithAIContext's payload through
\* detectSourceLanguage only, the user message being the prompt
Payload(r) ==
    IF r.fn = "translateAndPronounceSingleCall"
    THEN [fn |-> r.fn, targetLang |-> r.targetLang, inputText |-> r.inputText,
          getPronunciation |-> r.getPronunciation, qualityLevel |-> 0,
          userPrompt |-> r.inputText]
    ELSE [fn |-> r.fn, targetLang |-> r.targetLang, inputText |-> r.inputText,
          getPronunciation |-> r.getPronunciation,
          qualityLevel |-> r.qualityLevel, userPrompt |-> r.contextualPrompt]

\* translate.js 185-188, 284-287: safe, made of the provider's answer
Safe(r) ==
    [translation |-> Payload(r),
     pronunciation_hangul |-> IF r.getPronunciation THEN "pronunciation" ELSE ""]

\* translate.js 86-88 and 154, 216-218 and 254: getCache(cacheKey), and
\* the first fetch of retryWithBackoff on a miss
FromCacheKey(r) ==
    LET key == CacheKey(r)
        looked == [r EXCEPT !.cacheKey = key, !.cacheReads = r.cacheReads + 1]
    IN  IF Cached(key) # NoResult
        THEN Returned(looked, Cached(key), "translationCache")
        ELSE [looked EXCEPT !.pc = "fetch", !.i = 0,
                            !.fetches = Append(r.fetches, r.apiKey)]

\* what the public cache answered, as the caller reads it (208-211, 79-82)
PublicResult(c) ==
    [translation |-> c.ret.translation, pronunciation_hangul |-> c.ret.pronunciation]

\* getPublicCache has returned, its failure thrown on to the caller
AfterLookupThrowing(r) ==
    IF r.db.ret.success THEN Returned(r, PublicResult(r.db), "publicCache")
    ELSE IF r.readFailed THEN TranslateCatch(r, "cacheError")
    ELSE IF r.fn = "translateAndPronounceSingleCall" /\ ValidationError(r.inputText) # ""
    THEN TranslateCatch(r, ValidationError(r.inputText))
    ELSE FromCacheKey(r)

\* translate.js 77-88, 207-218: getPublicCache has returned
AfterLookup(r) ==
    IF r.db.ret.success THEN Returned(r, PublicResult(r.db), "publicCache")
    ELSE IF r.fn = "translateAndPronounceSingleCall" /\ ValidationError(r.inputText) # ""
    THEN TranslateCatch(r, ValidationError(r.inputText))
    ELSE FromCacheKey(r)

Lookup(r) ==
    [r EXCEPT !.pc = "getPublicCache", !.publicReads = r.publicReads + 1,
              !.db = getPublicCache(r.inputText, r.targetLang)]

\* translate.js 201-206: translateAndPronounceSingleCall up to its first
\* await; userApiKey is r.apiKey
translateAndPronounceSingleCall(r) ==
    LET apiKey == IF r.apiKey # "" THEN r.apiKey ELSE OPENAI_API_KEY
        s == [r EXCEPT !.fn = "translateAndPronounceSingleCall", !.apiKey = apiKey]
    IN  IF apiKey = "" THEN TranslateCatch(s, "noApiKey")
        ELSE Lookup(s)

\* translate.js 69-88: translateWithAIContext up to its first await
translateWithAIContext(r) ==
    LET apiKey == IF r.apiKey # "" THEN r.apiKey ELSE OPENAI_API_KEY
        s == [r EXCEPT !.fn = "translateWithAIContext", !.apiKey = apiKey]
    IN  IF apiKey = "" THEN TranslateCatch(s, "noApiKey")
        ELSE IF ValidationError(s.inputText) # ""
        THEN TranslateCatch(s, ValidationError(s.inputText))
        ELSE IF NoContext(s) THEN Lookup(s)
        ELSE FromCacheKey(s)

\* the check of line 554 left out
ServerConfiguredUnchecked == TRUE
\* translate.js 554: OPENAI_API_KEY is set
ServerConfigured == OPENAI_API_KEY # ""

\* translate.js 568: userApiKeys?.openai || OPENAI_API_KEY
apiKeyToUse(r) == IF r.openai # "" THEN r.openai ELSE OPENAI_API_KEY

\* translate.js 554-598: the handler from the check of the configuration
\* to the first await of the translate action
HandlerStart(r) ==
    IF ~ServerConfigured THEN HandlerCatch(r, "serverConfig")
    ELSE IF r.inputText = "" \/ r.targetLang = "" THEN Reply(r, 400, "missingField")
    ELSE IF apiKeyToUse(r) = "" THEN Reply(r, 500, "noApiKey")
    ELSE IF r.useAIContext /\ r.contextualPrompt # ""
    THEN translateWithAIContext([r EXCEPT !.apiKey = apiKeyToUse(r)])
    ELSE translateAndPronounceSingleCall([r EXCEPT !.apiKey = apiKeyToUse(r)])

\* the Map after the job that took the request from r to s: getCache was
\* called in it when the count of reads has grown
CacheAfter(r, s) ==
    IF s.cacheReads > r.cacheReads THEN AfterGetCache(s.cacheKey)
    ELSE translationCache

OtherThanTranslate ==
    <<dedupeVars, cacheVars, retryVars, queueVars, speakVars,
      now, ticks, ttlCalls, storedAt, lastRead, dbCalls, written, addedVars>>

\* a request arrives; the handler runs to its first await or to its response
Receive ==
    /\ req.pc \in {"idle", "done"}
    /\ handled < MaxRequests
    /\ handled' = handled + 1
    /\ \E u \in Users, inputText \in InputTexts, targetLang \in InputLangs,
          getPronunciation \in BOOLEAN, useAIContext \in BOOLEAN,
          contextualPrompt \in Prompts, qualityLevel \in QualityLevels :
          LET r == [NoRequest EXCEPT !.pc = "start", !.userId = u.userId,
                        !.openai = u.openai, !.inputText = inputText,
                        !.targetLang = targetLang,
                        !.getPronunciation = getPronunciation,
                        !.useAIContext = useAIContext,
                        !.contextualPrompt = contextualPrompt,
                        !.qualityLevel = qualityLevel]
          IN  /\ req' = HandlerStart(r)
              /\ translationCache' = CacheAfter(r, req')
    /\ UNCHANGED <<OPENAI_API_KEY, publicCache, OtherThanTranslate>>

\* the select of getPublicCache is answered
SelectAnswers ==
    /\ req.pc = "getPublicCache" /\ req.db.pc = "select"
    /\ \E o \in DbOutcomes :
          LET r == [req EXCEPT !.db = SelectAnswered(req.db, publicCache, o),
                               !.readFailed = (o # "ok")]
          IN  /\ req' = IF r.db.pc = "done" THEN AfterLookup(r) ELSE r
              /\ translationCache' = CacheAfter(r, req')
    /\ UNCHANGED <<OPENAI_API_KEY, publicCache, handled, OtherThanTranslate>>

\* the update of hit_count is answered
UpdateAnswers ==
    /\ req.pc = "getPublicCache" /\ req.db.pc = "update"
    /\ \E o \in DbOutcomes :
          LET r == [req EXCEPT !.db = UpdateAnswered(req.db, o),
                               !.readFailed = (o = "throws")]
          IN  /\ publicCache' = HitCountUpdated(req.db, publicCache, o)
              /\ req' = AfterLookup(r)
              /\ translationCache' = CacheAfter(r, req')
    /\ UNCHANGED <<OPENAI_API_KEY, handled, OtherThanTranslate>>

\* translate.js 185-197, 284-294: the provider has answered; setCache, and
\* setPublicCache unless a prompt gave context
Fetched(r) ==
    LET s == [r EXCEPT !.result = Safe(r), !.cacheWrites = r.cacheWrites + 1]
    IN  IF r.fn = "translateAndPronounceSingleCall" \/ NoContext(r)
        THEN [s EXCEPT !.pc = "setPublicCache",
                       !.publicWrites = r.publicWrites + 1,
                       !.db = setPublicCache(r.inputText, r.targetLang,
                                             Safe(r).translation,
                                             Safe(r).pronunciation_hangul)]
        ELSE Returned(s, Safe(r), "provider")

\* the fetch of the retry executor's attempt i is answered
FetchAnswers ==
    /\ req.pc = "fetch"
    /\ \E o \in FetchOutcomes :
          IF o = "ok"
          THEN /\ req' = Fetched(req)
               /\ translationCache' =
                     Put(translationCache, req.cacheKey, [ts |-> now, value |-> Safe(req)])
          ELSE /\ req' = [req EXCEPT !.pc = "delay"]
               /\ UNCHANGED translationCache
    /\ UNCHANGED <<OPENAI_API_KEY, publicCache, handled, OtherThanTranslate>>

\* translate.js 54-65: the delay after the failed attempt i has elapsed
BackoffElapses ==
    /\ req.pc = "delay"
    /\ req' = IF req.i + 1 < TranslateAttempts
              THEN [req EXCEPT !.pc = "fetch", !.i = req.i + 1,
                               !.delays = req.delays + 1,
                               !.fetches = Append(req.fetches, req.apiKey)]
              ELSE [TranslateCatch(req, "providerError")
                    EXCEPT !.i = req.i + 1, !.delays = req.delays + 1]
    /\ UNCHANGED <<OPENAI_API_KEY, publicCache, translationCache, handled,
                   OtherThanTranslate>>

\* the upsert of setPublicCache is answered
UpsertAnswers ==
    /\ req.pc = "setPublicCache"
    /\ \E o \in DbOutcomes :
          LET r == [req EXCEPT !.db = UpsertAnswered(req.db, o),
                               !.writeFailed = (o # "ok")]
          IN  /\ publicCache' = Upserted(req.db, publicCache, o)
              /\ req' = Returned(r, r.result, "provider")
    /\ UNCHANGED <<OPENAI_API_KEY, translationCache, handled, OtherThanTranslate>>

\* translate.js 601-605: trackUsage has returned
UsageTracked ==
    /\ req.pc = "trackUsage"
    /\ req' = Reply(req, 200, "")
    /\ UNCHANGED <<OPENAI_API_KEY, publicCache, translationCache, handled,
                   OtherThanTranslate>>

NextTranslate ==
    \/ Receive
    \/ SelectAnswers
    \/ UpdateAnswers
    \/ FetchAnswers
    \/ BackoffElapses
    \/ UpsertAnswers
    \/ UsageTracked

(***************************************************************************)
(* Properties of the translate action                                      *)
(***************************************************************************)
RequestDone == req.pc = "done"
UsedKeys == {req.fetches[n] : n \in DOMAIN req.fetches}

\* C23: a request of a user with a stored openai key is served with that
\* key when no system default is configured (it is not rejected for the
\* missing default), and every call to the provider carries the user's key
\* when there is one and the system default otherwise.
C23_UserKeyWithoutSystemDefault ==
    /\ (RequestDone /\ req.openai # "" /\ OPENAI_API_KEY = "")
          => req.error \notin {"serverConfig", "noApiKey"}
    /\ UsedKeys \subseteq {IF req.openai # "" THEN req.openai ELSE OPENAI_API_KEY}

Augmented == req.useAIContext /\ trim(req.contextualPrompt) # ""
UsesPublicCache == req.publicReads > 0 \/ req.publicWrites > 0

\* C25: a request that carries a contextual prompt in AI-context mode makes
\* no getPublicCache and no setPublicCache call; only requests without one
\* do.
C25_ContextBypassesPublicCache ==
    /\ [](Augmented => ~UsesPublicCache /\ req.db = NoCall)
    /\ [][Augmented' => publicCache' = publicCache]_vars
C25_Witness ==
    /\ RequestDone /\ Augmented /\ req.statusCode = 200
    /\ req.served = "provider" /\ ~UsesPublicCache
    /\ publicCache # EmptyMap

ServedFromCache ==
    /\ req.pc \in {"trackUsage", "done"}
    /\ req.served \in {"publicCache", "translationCache"}

\* C27: a request served from the public cache or from translationCache
\* gets an entry made for a request with the same source text, target
\* language, getPronunciation, qualityLevel and contextual prompt: what it
\* is served is what the provider answers to its own payload.
C27_NoSharedEntry ==
    ServedFromCache => req.result = Safe(req)

CacheFailed == req.readFailed \/ req.writeFailed

\* C29: a request whose getPublicCache or setPublicCache call failed still
\* completes: the failed read is a miss (the request goes on to validation,
\* translationCache and the provider), the failed write changes nothing,
\* and when the provider has answered the response is 200 with the
\* provider's translation; such a request fails only for its text or for
\* the provider failing every attempt.
C29_CacheFailureNotFatal ==
    (RequestDone /\ CacheFailed)
        => /\ req.served # "publicCache"
           /\ req.cacheWrites = 1
                => /\ req.statusCode = 200
                   /\ req.served = "provider" /\ req.result = Safe(req)
           /\ req.statusCode # 200
                => /\ req.statusCode = 500
                   /\ \/ req.error = ValidationError(req.inputText)
                      \/ req.error = "providerError" /\ Len(req.fetches) = TranslateAttempts
C29_Witness ==
    /\ RequestDone /\ req.readFailed /\ req.writeFailed
    /\ req.statusCode = 200 /\ req.served = "provider"
    /\ req.result = Safe(req)

\* C30: a request whose text is empty, only whitespace or longer than
\* MAX_INPUT_CHARS is rejected with no retry and no cache interaction: no
\* call of getPublicCache, setPublicCache, getCache or setCache and no call
\* to the provider is made for it.
C30_InvalidTextTouchesNothing ==
    (req.pc # "idle" /\ ValidationError(req.inputText) # "")
        => /\ req.publicReads = 0 /\ req.publicWrites = 0
           /\ req.cacheReads = 0 /\ req.cacheWrites = 0
           /\ req.fetches = <<>> /\ req.delays = 0
           /\ RequestDone => req.statusCode \in {400, 500}

\* C31: the response to a translate or speak request does not wait on usage
\* accounting: while a trackUsage call of the request is pending, the
\* response has been returned already, so that a trackUsage that never
\* completes holds nothing back.
C31_ResponseDoesNotAwaitUsage ==
    /\ req.pc = "trackUsage" => req.statusCode # 0
    /\ speak.pc = "track" => speak.status # 0

(***************************************************************************)
(* Two translate requests at the same time: translate.js 507-633           *)
(*                                                                         *)
(* A Netlify function instance may be handed a request while another is    *)
(* awaiting the database or the provider; the two handler runs share       *)
(* translationCache and public_cache.  twin[1] and twin[2] are two         *)
(* requests with identical user and body, each a record as req is, handled *)
(* by the same code, their jobs interleaved at the awaits.                 *)
(***************************************************************************)
TwinPrompts == {"", LongPrompt \o "a"}

InitTwin ==
    \E u \in Users, getPronunciation \in BOOLEAN, useAIContext \in BOOLEAN,
       contextualPrompt \in TwinPrompts :
       twin = [j \in 1..2 |->
                 [NoRequest EXCEPT !.userId = u.userId, !.openai = u.openai,
                                   !.inputText = "hi", !.targetLang = "vi",
                                   !.getPronunciation = getPronunciation,
                                   !.useAIContext = useAIContext,
                                   !.contextualPrompt = contextualPrompt]]

OtherThanTwin ==
    <<dedupeVars, cacheVars, retryVars, queueVars, speakVars, translateVars,
      now, ticks, ttlCalls, storedAt, lastRead, dbCalls, written,
      clientVars, streamVars, splitVars>>

\* request j arrives; the handler runs to its first await or to its response
TwinReceive ==
    \E j \in 1..2 :
       /\ twin[j].pc = "idle"
       /\ LET r == [twin[j] EXCEPT !.pc = "start"]
              s == HandlerStart(r)
          IN  /\ twin' = [twin EXCEPT ![j] = s]
              /\ translationCache' = CacheAfter(r, s)
       /\ UNCHANGED <<publicCache, OtherThanTwin>>

\* the select of request j's getPublicCache is answered
TwinSelectAnswers ==
    \E j \in 1..2, o \in DbOutcomes :
       /\ twin[j].pc = "getPublicCache" /\ twin[j].db.pc = "select"
       /\ LET r == [twin[j] EXCEPT !.db = SelectAnswered(twin[j].db, publicCache, o),
                                   !.readFailed = (o # "ok")]
              s == IF r.db.pc = "done" THEN AfterLookup(r) ELSE r
          IN  /\ twin' = [twin EXCEPT ![j] = s]
              /\ translationCache' = CacheAfter(r, s)
       /\ UNCHANGED <<publicCache, OtherThanTwin>>

\* the update of hit_count of request j's getPublicCache is answered
TwinUpdateAnswers ==
    \E j \in 1..2, o \in DbOutcomes :
       /\ twin[j].pc = "getPublicCache" /\ twin[j].db.pc = "update"
       /\ LET r == [twin[j] EXCEPT !.db = UpdateAnswered(twin[j].db, o),
                                   !.readFailed = (o = "throws")]
              s == AfterLookup(r)
          IN  /\ publicCache' = HitCountUpdated(twin[j].db, publicCache, o)
              /\ twin' = [twin EXCEPT ![j] = s]
              /\ translationCache' = CacheAfter(r, s)
       /\ UNCHANGED OtherThanTwin

\* the fetch of request j's retry executor is answered
TwinFetchAnswers ==
    \E j \in 1..2, o \in FetchOutcomes :
       /\ twin[j].pc = "fetch"
       /\ IF o = "ok"
          THEN /\ twin' = [twin EXCEPT ![j] = Fetched(twin[j])]
               /\ translationCache' =
                     Put(translationCache, twin[j].cacheKey,
                         [ts |-> now, value |-> Safe(twin[j])])
          ELSE /\ twin' = [twin EXCEPT ![j].pc = "delay"]
               /\ UNCHANGED translationCache
       /\ UNCHANGED <<publicCache, OtherThanTwin>>

\* translate.js 54-65: the delay after request j's failed attempt has elapsed
TwinBackoffElapses ==
    \E j \in 1..2 :
       /\ twin[j].pc = "delay"
       /\ twin' = [twin EXCEPT ![j] =
             IF twin[j].i + 1 < TranslateAttempts
             THEN [twin[j] EXCEPT !.pc = "fetch", !.i = twin[j].i + 1,
                                  !.delays = twin[j].delays + 1,
                                  !.fetches = Append(twin[j].fetches, twin[j].apiKey)]
             ELSE [TranslateCatch(twin[j], "providerError")
                   EXCEPT !.i = twin[j].i + 1, !.delays = twin[j].delays + 1]]
       /\ UNCHANGED <<publicCache, translationCache, OtherThanTwin>>

\* the upsert of request j's setPublicCache is answered
TwinUpsertAnswers ==
    \E j \in 1..2, o \in DbOutcomes :
       /\ twin[j].pc = "setPublicCache"
       /\ LET r == [twin[j] EXCEPT !.db = UpsertAnswered(twin[j].db, o),
                                   !.writeFailed = (o # "ok")]
          IN  /\ publicCache' = Upserted(twin[j].db, publicCache, o)
              /\ twin' = [twin EXCEPT ![j] = Returned(r, r.result, "provider")]
       /\ UNCHANGED <<translationCache, OtherThanTwin>>

\* translate.js 601-605: request j's trackUsage has returned
TwinUsageTracked ==
    \E j \in 1..2 :
       /\ twin[j].pc = "trackUsage"
       /\ twin' = [twin EXCEPT ![j] = Reply(twin[j], 200, "")]
       /\ UNCHANGED <<publicCache, translationCache, OtherThanTwin>>

NextTwin ==
    \/ TwinReceive
    \/ TwinSelectAnswers
    \/ TwinUpdateAnswers
    \/ TwinFetchAnswers
    \/ TwinBackoffElapses
    \/ TwinUpsertAnswers
    \/ TwinUsageTracked

(***************************************************************************)
(* Properties of two requests handled at the same time                     *)
(***************************************************************************)
\* request j has a call to the provider under way: a fetch outstanding, or
\* the retry executor between two attempts
Calling(j) == twin[j].pc \in {"fetch", "delay"}

\* C34: two translation requests with identical inputs that are in progress
\* at the same time in one server process, both missing the caches,
\* collapse into one underlying call to the translation provider: the two
\* never have a provider call under way each.
C34_OneCallForIdenticalRequests == ~(Calling(1) /\ Calling(2))


(***************************************************************************)
(* translateWithCache: src/js/api.js 75-112                                *)
(*                                                                         *)
(* apiCache is a CacheManager (part_003 134) and is the Map cache of the   *)
(* CacheManager above, with its capacity maxSize; the requests are the     *)
(* operations of dedupeRequest, and pendingRequests, ops and calls are     *)
(* those of the deduplicator.  stage[o] is where the request function of   *)
(* operation o stands: "fetch" while it awaits fetch, "json" while it      *)
(* awaits response.json(), then "stored" (its apiCache.set has put the     *)
(* response into apiCache), "notStored" or "failed".  hits records the     *)
(* calls answered from apiCache with the number of requests issued before  *)
(* them; the code reads neither.  The server answers an ok response with a *)
(* JSON object, which is truthy.                                           *)
(***************************************************************************)
FetchResults == {"ok", "notOk", "throws"}
JsonResults == {"data", "throws"}

InitClient ==
    /\ stage = <<>>
    /\ hits = <<>>

\* api.js 79-80: apiCache.get(cacheKey) returned a truthy value
CacheHitNever(c, key) == FALSE
CacheHit(c, key) == MapHas(c, key)

\* api.js 108: apiCache.set(cacheKey, data) (part_003 109-122)
StoreResponse(c, key, data) ==
    LET c1 == DeleteIfPresent(c, key)
        c2 == IF CacheFull(c1) THEN MapDelete(c1, FirstKey(c1)) ELSE c1
    IN  MapSet(c2, key, data)

OtherThanClient ==
    <<maxSize, cacheClock, lastAccess, live, lastOp, ttlVars, retryVars,
      queueVars, speakVars, publicVars, translateVars, twinVars, streamVars,
      splitVars>>

\* api.js 75-112 with 59-72: translateWithCache is called for the key; it
\* returns what apiCache holds, or the promise of dedupeRequest, whose
\* request function runs to its await of fetch when it is invoked
translateWithCache ==
    /\ Len(calls) + Len(hits) < MaxCalls
    /\ \E key \in DedupeKeys :
          IF CacheHit(cache, key)
          THEN /\ cache' = Promote(cache, key)
               /\ hits' = Append(hits, [key |-> key, after |-> Len(ops)])
               /\ UNCHANGED <<dedupeVars, stage>>
          ELSE /\ dedupeRequest(key, "returns")
               /\ stage' = IF HasPending(key) THEN stage ELSE Append(stage, "fetch")
               /\ UNCHANGED <<cache, hits>>
    /\ UNCHANGED OtherThanClient

\* api.js 86-101: the fetch of operation o is answered: a response that is
\* ok, one that is not (the function throws), or a network error
FetchResponds ==
    /\ \E o \in DOMAIN stage, r \in FetchResults :
          /\ stage[o] = "fetch"
          /\ IF r = "ok"
             THEN /\ stage' = [stage EXCEPT ![o] = "json"]
                  /\ UNCHANGED dedupeVars
             ELSE /\ OperationSettles(o, "rejected")
                  /\ stage' = [stage EXCEPT ![o] = "failed"]
    /\ UNCHANGED <<cache, hits, OtherThanClient>>

\* api.js 105-110: response.json() of operation o settles; the data is put
\* into apiCache and returned
JsonResponds ==
    /\ \E o \in DOMAIN stage, r \in JsonResults :
          /\ stage[o] = "json"
          /\ IF r = "data"
             THEN /\ cache' = StoreResponse(cache, ops[o].key, "data")
                  /\ OperationSettles(o, "fulfilled")
                  /\ stage' = [stage EXCEPT ![o] =
                                  IF MapHas(cache', ops[o].key)
                                  THEN "stored" ELSE "notStored"]
             ELSE /\ OperationSettles(o, "rejected")
                  /\ stage' = [stage EXCEPT ![o] = "failed"]
                  /\ UNCHANGED cache
    /\ UNCHANGED <<hits, OtherThanClient>>

\* api.js 66-68: the .finally reaction of a settled request runs
RequestFinally ==
    /\ \E o \in DOMAIN stage : FinallyReaction(o)
    /\ UNCHANGED <<cache, stage, hits, OtherThanClient>>

NextClient ==
    \/ translateWithCache
    \/ FetchResponds
    \/ JsonResponds
    \/ RequestFinally

(***************************************************************************)
(* Properties of translateWithCache                                        *)
(***************************************************************************)
\* the request issued in this step, 0 when none is
Issued == IF Len(ops') > Len(ops) THEN Len(ops') ELSE 0
\* the keys that leave pendingRequests in this step
Leaving == (DOMAIN pendingRequests) \ (DOMAIN pendingRequests')

\* C36: in translateWithCache no network request is issued for a key while
\* a request for that key is outstanding or while a successful response for
\* it is held in apiCache; and the response is stored in apiCache before
\* the key leaves pendingRequests, so that a request that succeeded has put
\* its response into apiCache by the time a new caller can start another.
C36_NoSecondRequest ==
    /\ [][Issued # 0
            => /\ Unfinished(ops'[Issued].key) = {}
               /\ ~MapHas(cache, ops'[Issued].key)]_vars
    /\ [][\A key \in Leaving :
            ops[pendingRequests[key]].outcome.kind = "fulfilled"
                => stage[pendingRequests[key]] = "stored"]_vars
    /\ [](\A o \in DOMAIN stage :
            ops[o].outcome.kind = "fulfilled" => stage[o] = "stored")

\* a request was issued, a second call joined it, the response was stored
\* and the key has left pendingRequests; a third call of the key was then
\* answered from apiCache, and no second request was issued
C36_Witness ==
    /\ Len(ops) = 1 /\ ops[1].state = "done" /\ stage[1] = "stored"
    /\ Len(calls) = 2 /\ ~calls[2].started /\ calls[2].key = ops[1].key
    /\ Len(hits) = 1 /\ hits[1].key = ops[1].key /\ hits[1].after = 1
    /\ pendingRequests = EmptyMap

(***************************************************************************)
(* translateWithStreaming and translateWithStreamingFallback:              *)
(* src/js/api.js 180-249                                                   *)
(*                                                                         *)
(* stream is one call of translateWithStreamingFallback.  onChunk tells    *)
(* whether a callback was passed; pc is where the call stands ("fetch",    *)
(* "errorJson", "json" and "delay" are the awaits of translateWithStreaming,*)
(* "settled" is its promise settled and the caller's await not yet resumed,*)
(* "cache" is the await of what translateWithCache returned); result is    *)
(* how the promise of translateWithStreaming settled; shown are the texts  *)
(* passed to onChunk; cacheCalls counts the invocations of                 *)
(* translateWithCache; failure, which the code does not hold, names the    *)
(* failure of the streaming attempt.  What fetch, response.json() and      *)
(* onChunk throw are objects, as the errors of the runtime are, so that    *)
(* error.message of line 228 is read without a throw.                      *)
(***************************************************************************)
MaxChunks == 2
ChunkLists == {[i \in 1..n |-> Repeat("c", i)] : n \in 0..MaxChunks}
\* the bodies of a response that is ok: data with or without chunks, which a
\* server may flag fallback itself, and null
Datas ==
    {[isNull |-> FALSE, hasChunks |-> h, chunks |-> c, fallback |-> f] :
        h \in BOOLEAN, c \in ChunkLists, f \in BOOLEAN}
NullData == [isNull |-> TRUE, hasChunks |-> FALSE, chunks |-> <<>>, fallback |-> FALSE]
OkBodies == {d \in Datas : ~d.hasChunks => d.chunks = <<>>} \cup {NullData}
\* the bodies of a response that is not ok: errorData with or without
\* fallbackToNormal, and null
ErrorBodies == {"fallbackToNormal", "error", "null"}
Throwing == {"returns", "throws"}

NotSettled == [kind |-> "pending", fallback |-> FALSE, data |-> NullData]
FallbackResult == [kind |-> "fulfilled", fallback |-> TRUE, data |-> NullData]
StreamRejected == [kind |-> "rejected", fallback |-> FALSE, data |-> NullData]
Data(d) == [kind |-> "fulfilled", fallback |-> d.fallback, data |-> d]

InitStream ==
    \E f \in BOOLEAN :
        stream = [onChunk |-> f, pc |-> "fetch", result |-> NotSettled,
                  data |-> NullData, displayedText |-> "", shown |-> <<>>,
                  failure |-> "none", cacheCalls |-> 0, returned |-> "nothing"]

OtherThanStream ==
    <<dedupeVars, cacheVars, ttlVars, retryVars, queueVars, speakVars,
      publicVars, translateVars, twinVars, clientVars, splitVars>>

\* api.js 226-229: the catch of translateWithStreaming
StreamCatchRethrows(s, failure) ==
    [s EXCEPT !.pc = "settled", !.result = StreamRejected, !.failure = failure]
StreamCatch(s, failure) ==
    [s EXCEPT !.pc = "settled", !.result = FallbackResult, !.failure = failure]

\* api.js 223-224: return data
StreamReturn(s) == [s EXCEPT !.pc = "settled", !.result = Data(s.data)]

\* api.js 214-219: one turn of the loop over data.chunks, up to its await
Deliver(s, thrown) ==
    LET text == s.displayedText \o s.data.chunks[Len(s.shown) + 1]
        t == [s EXCEPT !.displayedText = text, !.shown = Append(@, text)]
    IN  IF thrown = "throws" THEN StreamCatch(t, "chunk")
        ELSE [t EXCEPT !.pc = "delay"]

\* api.js 184-200: the fetch settles
StreamFetchResponds ==
    /\ stream.pc = "fetch"
    /\ \E r \in FetchResults :
          stream' = CASE r = "ok"     -> [stream EXCEPT !.pc = "json"]
                      [] r = "notOk"  -> [stream EXCEPT !.pc = "errorJson"]
                      [] r = "throws" -> StreamCatch(stream, "network")
    /\ UNCHANGED OtherThanStream

\* api.js 202-208: response.json() of a response that is not ok settles
StreamErrorBody ==
    /\ stream.pc = "errorJson"
    /\ \E thrown \in Throwing, errorData \in ErrorBodies :
          stream' = IF thrown = "returns" /\ errorData = "fallbackToNormal"
                    THEN [stream EXCEPT !.pc = "settled", !.result = FallbackResult,
                                        !.failure = "status"]
                    ELSE StreamCatch(stream, "status")
    /\ UNCHANGED OtherThanStream

\* api.js 210-224: response.json() of a response that is ok settles; the
\* first turn of the loop runs in the same job
StreamBody ==
    /\ stream.pc = "json"
    /\ \E thrown \in Throwing, d \in OkBodies, onChunkThrows \in Throwing :
          LET s == [stream EXCEPT !.data = d] IN
          stream' =
             IF thrown = "throws" THEN StreamCatch(stream, "body")
             ELSE IF stream.onChunk
                  THEN IF d.isNull THEN StreamCatch(s, "body")
                       ELSE IF d.hasChunks /\ Len(d.chunks) > 0
                            THEN Deliver(s, onChunkThrows)
                            ELSE StreamReturn(s)
                  ELSE IF d.isNull THEN StreamCatch(s, "body")
                       ELSE StreamReturn(s)
    /\ UNCHANGED OtherThanStream

\* api.js 214-224: the timer of line 218 fires: the next turn, or the return
StreamTimer ==
    /\ stream.pc = "delay"
    /\ \E onChunkThrows \in Throwing :
          stream' = IF Len(stream.shown) < Len(stream.data.chunks)
                    THEN Deliver(stream, onChunkThrows)
                    ELSE StreamReturn(stream)
    /\ UNCHANGED OtherThanStream

\* api.js 236-248: the await of translateWithStreamingFallback resumes
StreamResultRead ==
    /\ stream.pc = "settled"
    /\ stream' =
          IF stream.result.kind = "rejected"
          THEN [stream EXCEPT !.pc = "done", !.returned = "rejected"]
          ELSE IF stream.result.fallback
               THEN [stream EXCEPT !.pc = "cache", !.cacheCalls = @ + 1]
               ELSE [stream EXCEPT !.pc = "done", !.returned = "streamResult"]
    /\ UNCHANGED OtherThanStream

\* api.js 241-245: what translateWithCache returned settles
StreamCacheSettles ==
    /\ stream.pc = "cache"
    /\ \E kind \in {"cached", "rejected"} :
          stream' = [stream EXCEPT !.pc = "done", !.returned = kind]
    /\ UNCHANGED OtherThanStream

NextStream ==
    \/ StreamFetchResponds
    \/ StreamErrorBody
    \/ StreamBody
    \/ StreamTimer
    \/ StreamResultRead
    \/ StreamCacheSettles

(***************************************************************************)
(* Properties of the streaming translation                                 *)
(***************************************************************************)
\* C39: translateWithStreaming never rejects: after every failure of the
\* streaming attempt (network error, status that is not ok, error while the
\* chunks are delivered) its result is flagged fallback; and
\* translateWithStreamingFallback invokes translateWithCache exactly once
\* when the attempt reported fallback and not at all otherwise.
C39_FailureFallsBack ==
    /\ stream.result.kind # "rejected"
    /\ (stream.failure # "none" /\ stream.pc \in {"settled", "cache", "done"})
          => stream.result = FallbackResult
    /\ stream.pc \in {"fetch", "errorJson", "json", "delay", "settled"}
          => stream.cacheCalls = 0
    /\ stream.pc \in {"cache", "done"}
          => stream.cacheCalls = (IF stream.result.fallback THEN 1 ELSE 0)

\* onChunk was given the first chunk and threw on the second; the attempt
\* reported fallback and translateWithCache was invoked once and returned
C39_Witness ==
    /\ stream.failure = "chunk" /\ Len(stream.shown) = 2
    /\ stream.result = FallbackResult
    /\ stream.cacheCalls = 1
    /\ stream.pc = "done" /\ stream.returned = "cached"

(***************************************************************************)
(* splitIntoSentences and the chunks served:                               *)
(* src/netlify/functions/translate.js 298-314, 607-609, 777-788            *)
(*                                                                         *)
(* split is one text: pc "text" before the translate action has split it,  *)
(* "chunks" after (chunks is result.chunks of its response); spoken are    *)
(* the chunk texts the speak-chunk action answered with, for the indexes   *)
(* 0, 1, ... asked in this order, and completed is its answer to an index  *)
(* that is not below the number of chunks.  The texts are made of pieces:  *)
(* a word, two terminators, a space, and a sentence so long that two of   *)
(* them pass maxLength.                                                    *)
(***************************************************************************)
maxLength == 200
MaxPieces == 3
LongSentence == Repeat("w", 120) \o "."
Pieces == {"Hi", ".", "!", " ", LongSentence}
RECURSIVE Join(_)
Join(ps) == IF ps = <<>> THEN "" ELSE Head(ps) \o Join(Tail(ps))
Texts == {Join(ps) : ps \in UNION {[1..n -> Pieces] : n \in 0..MaxPieces}}
TtsResults == {"audio", "throws"}

\* the characters of the class [.!?]
Terminator(ch) == ch \in {".", "!", "?"}
\* the length of the longest prefix of s in the class [.!?] (term) or
\* [^.!?] (~term)
RunLen(s, term) ==
    LET others == {i \in 1..Len(s) : Terminator(SubSeq(s, i, i)) # term}
    IN  IF others = {} THEN Len(s)
        ELSE (CHOOSE i \in others : \A j \in others : i <= j) - 1

\* translate.js 299: the matches of /[^.!?]+[.!?]+/g in s, from left to
\* right: the terminators before the first other character match nothing,
\* and neither do the characters after the last terminator
RECURSIVE MatchAll(_)
MatchAll(s) ==
    LET from == SubSeq(s, RunLen(s, TRUE) + 1, Len(s))
        n == RunLen(from, FALSE)
        t == RunLen(SubSeq(from, n + 1, Len(from)), TRUE)
    IN  IF n = 0 \/ t = 0 THEN <<>>
        ELSE <<SubSeq(from, 1, n + t)>>
                \o MatchAll(SubSeq(from, n + t + 1, Len(from)))

\* translate.js 299: text.match(...) || [text]
Sentences(text) == IF MatchAll(text) = <<>> THEN <<text>> ELSE MatchAll(text)

\* translate.js 306, 311: if (currentChunk) chunks.push(currentChunk.trim())
Push(chunks, currentChunk) ==
    IF currentChunk # "" THEN Append(chunks, trim(currentChunk)) ELSE chunks

\* translate.js 302-311: the loop over the sentences and the last push
RECURSIVE Chunked(_, _, _)
Chunked(sentences, chunks, currentChunk) ==
    IF sentences = <<>> THEN Push(chunks, currentChunk)
    ELSE LET sentence == Head(sentences) IN
         IF Len(currentChunk \o sentence) <= maxLength
         THEN Chunked(Tail(sentences), chunks, currentChunk \o sentence)
         ELSE Chunked(Tail(sentences), Push(chunks, currentChunk), sentence)

\* translate.js 298-314
splitIntoSentences(text) == Chunked(Sentences(text), <<>>, "")

InitSplit ==
    \E text \in Texts :
        split = [text |-> text, pc |-> "text", chunks |-> <<>>,
                 spoken |-> <<>>, completed |-> FALSE]

OtherThanSplit ==
    <<dedupeVars, cacheVars, ttlVars, retryVars, queueVars, speakVars,
      publicVars, translateVars, twinVars, clientVars, streamVars>>

\* translate.js 607-609: the translate action splits the translation
TranslateSplits ==
    /\ split.pc = "text"
    /\ split' = [split EXCEPT !.pc = "chunks",
                              !.chunks = splitIntoSentences(split.text)]
    /\ UNCHANGED OtherThanSplit

\* translate.js 768-826: the speak-chunk action is asked for the index after
\* the last one it answered
SpeakChunk ==
    /\ split.text # ""
    /\ ~split.completed
    /\ \E tts \in TtsResults :
          LET chunks == splitIntoSentences(split.text)
              idx == Len(split.spoken)
          IN  split' =
                 IF idx >= Len(chunks) THEN [split EXCEPT !.completed = TRUE]
                 ELSE IF tts = "throws" THEN split
                 ELSE [split EXCEPT !.spoken = Append(@, chunks[idx + 1])]
    /\ UNCHANGED OtherThanSplit

NextSplit ==
    \/ TranslateSplits
    \/ SpeakChunk

(***************************************************************************)
(* Properties of splitIntoSentences                                        *)
(***************************************************************************)
\* s without its spaces
RECURSIVE NonWhite(_)
NonWhite(s) ==
    IF Len(s) <= 1 THEN (IF s = " " THEN "" ELSE s)
    ELSE NonWhite(SubSeq(s, 1, Len(s) \div 2))
            \o NonWhite(SubSeq(s, Len(s) \div 2 + 1, Len(s)))
\* where in b the leftmost occurrence of the characters of a, in their
\* order and from position from on, ends; past Len(b) + 1 when there is none
RECURSIVE EndOf(_, _, _)
EndOf(a, b, from) ==
    IF from > Len(b) \/ a = "" THEN (IF a = "" THEN from ELSE Len(b) + 2)
    ELSE IF Len(a) = 1
    THEN LET at == {i \in from..Len(b) : SubSeq(b, i, i) = a}
         IN  IF at = {} THEN Len(b) + 2
             ELSE (CHOOSE i \in at : \A j \in at : i <= j) + 1
    ELSE EndOf(SubSeq(a, Len(a) \div 2 + 1, Len(a)), b,
               EndOf(SubSeq(a, 1, Len(a) \div 2), b, from))
\* the characters of a occur in b, in the order of a
OccursIn(a, b) == EndOf(a, b, 1) <= Len(b) + 1

\* C40: splitIntoSentences loses no text: its chunks, concatenated in
\* order, contain every non-whitespace character of the text in the
\* original order, in the chunks of the translate response and in the
\* chunks the speak-chunk action served for the indexes 0 to totalChunks-1.
C40_NoTextLost ==
    /\ split.pc = "chunks"
          => OccursIn(NonWhite(split.text), NonWhite(Join(split.chunks)))
    /\ split.completed
          => OccursIn(NonWhite(split.text), NonWhite(Join(split.spoken)))

(***************************************************************************)
(* Specifications.  Each component is checked with the others at rest;     *)
(* the translate action works on translationCache and on publicCache with  *)
(* no other caller of them running.                                        *)
(***************************************************************************)
\* a component at rest: its state after the module is loaded
IdleDedupe == InitDedupe
IdleCache == InitCache /\ maxSize = 1
IdleTtl == InitTtl
IdleRetry == InitRetry /\ retry.fn = "retryRequest" /\ retry.attempts = 1
IdleQueue == InitQueue
IdleSpeak ==
    /\ InitSpeak
    /\ speak.mode = "auto" /\ ~speak.long /\ ~speak.userKey /\ ~speak.userId
IdlePublic == InitPublic
IdleTranslate == InitTranslate /\ OPENAI_API_KEY = "sk-system"
IdleTwin ==
    /\ InitTwin
    /\ twin[1].userId = FALSE /\ twin[1].getPronunciation /\ ~twin[1].useAIContext
    /\ twin[1].contextualPrompt = ""
IdleClient == InitClient
IdleStream == InitStream /\ ~stream.onChunk
IdleSplit == InitSplit /\ split.text = ""
Rest == IdlePublic /\ IdleTranslate /\ IdleTwin /\ IdleClient /\ IdleStream /\ IdleSplit

InitDedupeOnly == InitDedupe /\ IdleCache /\ IdleTtl /\ IdleRetry /\ IdleQueue /\ IdleSpeak /\ Rest
InitCacheOnly == IdleDedupe /\ InitCache /\ IdleTtl /\ IdleRetry /\ IdleQueue /\ IdleSpeak /\ Rest
InitTtlOnly == IdleDedupe /\ IdleCache /\ InitTtl /\ IdleRetry /\ IdleQueue /\ IdleSpeak /\ Rest
InitRetryOnly == IdleDedupe /\ IdleCache /\ IdleTtl /\ InitRetry /\ IdleQueue /\ IdleSpeak /\ Rest
InitQueueOnly == IdleDedupe /\ IdleCache /\ IdleTtl /\ IdleRetry /\ InitQueue /\ IdleSpeak /\ Rest
InitSpeakOnly == IdleDedupe /\ IdleCache /\ IdleTtl /\ IdleRetry /\ IdleQueue /\ InitSpeak /\ Rest
InitTranslateOnly ==
    /\ IdleDedupe /\ IdleCache /\ IdleTtl /\ IdleRetry /\ IdleQueue /\ IdleSpeak
    /\ IdlePublic /\ InitTranslate /\ IdleTwin /\ IdleClient /\ IdleStream /\ IdleSplit
InitPublicOnly ==
    /\ IdleDedupe /\ IdleCache /\ IdleTtl /\ IdleRetry /\ IdleQueue /\ IdleSpeak
    /\ InitPublic /\ IdleTranslate /\ IdleTwin /\ IdleClient /\ IdleStream /\ IdleSplit
InitTwinOnly ==
    /\ IdleDedupe /\ IdleCache /\ IdleTtl /\ IdleRetry /\ IdleQueue /\ IdleSpeak
    /\ IdlePublic /\ IdleTranslate /\ InitTwin /\ IdleClient /\ IdleStream /\ IdleSplit
InitStreamOnly ==
    /\ InitDedupe /\ IdleCache /\ IdleTtl /\ IdleRetry /\ IdleQueue /\ IdleSpeak
    /\ IdlePublic /\ IdleTranslate /\ IdleTwin /\ IdleClient /\ InitStream /\ IdleSplit
InitSplitOnly ==
    /\ InitDedupe /\ IdleCache /\ IdleTtl /\ IdleRetry /\ IdleQueue /\ IdleSpeak
    /\ IdlePublic /\ IdleTranslate /\ IdleTwin /\ IdleClient /\ IdleStream /\ InitSplit
InitClientOnly ==
    /\ InitDedupe /\ InitCache /\ IdleTtl /\ IdleRetry /\ IdleQueue /\ IdleSpeak
    /\ IdlePublic /\ IdleTranslate /\ IdleTwin /\ InitClient /\ IdleStream /\ IdleSplit

Init ==
    /\ InitDedupe /\ InitCache /\ InitTtl /\ InitRetry /\ InitQueue /\ InitSpeak
    /\ InitPublic /\ InitTranslate /\ InitTwin /\ InitClient /\ InitStream /\ InitSplit
Next ==
    \/ NextDedupe \/ NextCache \/ NextTtl \/ NextRetry \/ NextQueue \/ NextSpeak
    \/ NextPublic \/ NextTranslate \/ NextTwin \/ NextClient \/ NextStream
    \/ NextSplit
Spec == Init /\ [][Next]_vars

SpecDedupe == InitDedupeOnly /\ [][NextDedupe]_vars
\* a queued promise reaction is always run: the microtask queue is drained
FairSpecDedupe == SpecDedupe /\ WF_vars(FinallyStep)
SpecCache == InitCacheOnly /\ [][NextCache]_vars
SpecTtl == InitTtlOnly /\ [][NextTtl]_vars
SpecRetry == InitRetryOnly /\ [][NextRetry]_vars
SpecQueue == InitQueueOnly /\ [][NextQueue]_vars
\* the reaction of a settled Promise.allSettled is run, a timer fires, and
\* every operation started settles
FairSpecQueue ==
    /\ SpecQueue
    /\ WF_vars(BatchSettledStep)
    /\ WF_vars(DelayElapsesStep)
    /\ WF_vars(TaskSettlesStep)
SpecSpeak == InitSpeakOnly /\ [][NextSpeak]_vars
SpecPublic == InitPublicOnly /\ [][NextPublic]_vars
SpecTranslate == InitTranslateOnly /\ [][NextTranslate]_vars
SpecTwin == InitTwinOnly /\ [][NextTwin]_vars
SpecClient == InitClientOnly /\ [][NextClient]_vars
SpecStream == InitStreamOnly /\ [][NextStream]_vars
SpecSplit == InitSplitOnly /\ [][NextSplit]_vars

====
